---- MODULE Spec2Model ----
(***************************************************************************)
(* Browser session manager of the playwright sidecar                       *)
(* (playwright-sidecar/src/browser-manager.js).                            *)
(*                                                                         *)
(* The sidecar is a single-threaded node process: the synchronous stretch  *)
(* of code between two awaits is one atomic action, and every await is a   *)
(* point where other calls, timer callbacks and I/O completions interleave.*)
(* Each exported async function is therefore a small process with a `pc`   *)
(* naming the await it is suspended at; a setInterval callback that is     *)
(* suspended at an await is an entry of `inflight`.                        *)
(***************************************************************************)
EXTENDS Integers, Sequences, FiniteSets, TLC

----------------------------------------------------------------------------
(* Bounds of the model                                                      *)

\* API calls made in one run, and how many of them may be suspended at once.
MaxCalls == 3
MaxConc == 2
\* Callbacks fired by one interval, and how many of them may be suspended at once.
MaxTicks == 3
MaxInflight == 1
\* API calls made on a session that is already launched.
MaxWatcherCalls == 2
MaxChallengeCalls == 2
MaxOpsCalls == 3
MaxTimerCalls == 3
MaxProfileCalls == 3
MaxCloseAllCalls == 3
MaxSignalCalls == 3
MaxLoginCalls == 3
\* Processes the supervisor spawns in one run, and how long a run of equal probe
\* outcomes is followed.
MaxSpawns == 7
MaxStreak == 4
\* Rotations of one log stream in one run.
MaxRotations == 7

(* Program constants                                                        *)

maxChecks == 120

Accounts == {"acc1", "acc2"}

\* generateFingerprint() draws at random; two draws may differ.
FpVals == {"fpA", "fpB"}

\* The inputs of POST /browser/launch that the session keeps.
LaunchInputs ==
    { [platformId |-> "netease", proxy |-> "none"],
      [platformId |-> "unknown", proxy |-> "proxy1"] }

NoSession == [ctx |-> 0]
NoFile == "nofile"

\* Date.now() is kept only as "a time": no code compares two of them.
Now == "now"
Never == "null"

VARIABLES
    activeBrowsers,   \* accountId -> session object, or NoSession
    loginWatchers,    \* accountId -> interval id, or 0
    timers,           \* interval id -> closure of startLoginWatcher
    inflight,         \* interval callbacks suspended at an await
    ctxs,             \* browser contexts ever opened by launchPersistentContext
    fpFile,           \* profiles/<id>/fingerprint.json
    cookieFile,       \* profiles/<id>/cookies.json
    pageIn,           \* whether the account's browser profile is logged in
    calls,            \* the API calls that are suspended at an await
    nCalls,           \* how many API calls were made
    ret,              \* the value returned by the step just taken, if it returned one
    ghost,            \* history of each watcher and of the generator
    sidecarState,     \* the supervisor's SidecarState
    manager,          \* what the supervisor keeps besides its state
    health,           \* the health checker: counters, poll loops, probes in flight
    logs              \* the log files of each output stream

\* The state of the host application's side: supervisor, health checker, logs.
hostVars == << sidecarState, manager, health, logs >>

\* The state of the session manager, but for the value just returned.
sessionVars == << activeBrowsers, loginWatchers, timers, inflight, ctxs, fpFile,
                  cookieFile, pageIn, calls, nCalls, ghost >>

vars == << activeBrowsers, loginWatchers, timers, inflight, ctxs, fpFile,
           cookieFile, pageIn, calls, nCalls, ret, ghost, hostVars >>

----------------------------------------------------------------------------
(* Helpers                                                                  *)

Slots == 1..MaxConc
TimerIds == 1..Len(timers)
CtxIds == 1..Len(ctxs)

Idle ==
    [op |-> "idle", a |-> "none", pc |-> "idle", ctx |-> 0, fp |-> NoFile,
     platformId |-> "none", proxy |-> "none", flag |-> FALSE, challenge |-> "none",
     attempts |-> 0, moves |-> 0, done |-> {}, results |-> << >>]

NoRet == [op |-> "none", a |-> "none", res |-> "none", fp |-> NoFile, t |-> 0,
          platformId |-> "none", cause |-> "none", results |-> << >>,
          login |-> [isLoggedIn |-> FALSE, loginDetectedAt |-> Never]]

Ret(c, res) ==
    [NoRet EXCEPT !.op = calls[c].op, !.a = calls[c].a, !.res = res,
                  !.platformId = calls[c].platformId]

\* What a callback of interval t did in the step just taken.
Did(t, what) == [NoRet EXCEPT !.op = "watcher", !.a = timers[t].acct, !.res = what, !.t = t]

\* A new call takes the first free slot.
FreeSlot(c) ==
    /\ calls[c] = Idle
    /\ \A d \in Slots : d < c => calls[d] # Idle

At(c, pc) == [calls EXCEPT ![c].pc = pc]

Finished(c) == [calls EXCEPT ![c] = Idle]

\* activeBrowsers.delete(accountId), as the iterators over activeBrowsers.keys() see
\* it: the key is no longer behind any cursor, and a later set appends it afresh.
MapDelete(cs, a) == [d \in Slots |-> [cs[d] EXCEPT !.done = @ \ {a}]]

HasSession(a) == activeBrowsers[a] # NoSession

CtxOpen(x) == x \in CtxIds /\ ctxs[x].open

\* The cookies a context hands out reflect the login state of its profile.
Cookies(a) == IF pageIn[a] THEN "in" ELSE "out"

saveCookiesShared(a, cookies) == [b \in Accounts |-> cookies]

\* saveCookies(accountId, cookies) writes profiles/<accountId>/cookies.json.
saveCookies(a, cookies) == [cookieFile EXCEPT ![a] = cookies]

----------------------------------------------------------------------------
(* stopLoginWatcher / startLoginWatcher                                     *)

ClearIntervalForgotten(tm, a) == tm

\* clearInterval(intervalId): the timer fires no more callbacks, so its checkCount
\* is never read again and is dropped. Callbacks already suspended at an await still
\* run to their end and still use wasLoggedIn.
ClearInterval(tm, a) ==
    IF loginWatchers[a] # 0
    THEN [tm EXCEPT ![loginWatchers[a]].live = FALSE, ![loginWatchers[a]].checkCount = 0]
    ELSE tm

\* loginWatchers.delete(accountId)
DeleteWatcher(a) == [loginWatchers EXCEPT ![a] = 0]

\* The closure a new setInterval starts with.
NewTimer(a) == [acct |-> a, wasLoggedIn |-> FALSE, checkCount |-> 0, live |-> TRUE]

\* What is recorded about a watcher: the last login state it observed, how far its
\* ticks have followed Script, and the saves it triggered on the way with the tick
\* of the latest.
NewGhost == [seen |-> FALSE, script |-> 0, saves |-> 0, saveTick |-> 0]

\* stopLoginWatcher as it acts on the timers and on the watcher map.
StopTimers(a) == ClearInterval(timers, a)

StopWatchers(a) == DeleteWatcher(a)

StartTimersKeepOld(a) == Append(timers, NewTimer(a))

\* startLoginWatcher: stop the existing watcher, then register a new interval.
StartTimers(a) == Append(StopTimers(a), NewTimer(a))

StartWatchers(a) == [StopWatchers(a) EXCEPT ![a] = Len(timers) + 1]

----------------------------------------------------------------------------
(* The host application's side: SidecarManager, HealthChecker and LogManager *)
(* of src-tauri/src/services/sidecar_manager, as docs/SIDECAR_IMPROVEMENTS.md *)
(* describes them.                                                           *)

\* HealthCheckConfig and the restart policy.
failure_threshold == 3
success_threshold == 2
max_restarts == 5

\* Log rotation: 10 MB a file, 5 archived files kept. Sizes are counted in MB.
size_threshold == 10
retention_limit == 5

Streams == {"stdout", "stderr"}

\* pub enum SidecarState
SidecarStates == {"Stopped", "Starting", "Running", "Stopping", "Failed"}

\* pub enum StartStage, in its order.
StartStages ==
    << "CheckingDependencies", "InstallingDependencies", "SpawningProcess",
       "WaitingForHealth", "Ready" >>

InState(kind, stage, pid) == [kind |-> kind, stage |-> stage, pid |-> pid]

\* The current file of a stream (archived = 0) or one of its archives, which carry
\* the time of their rotation in their name.
LogFile(stream, archived) == [stream |-> stream, archived |-> archived]

\* A supervisor that was never started: no process, no poll loop, empty logs.
InitHost ==
    /\ sidecarState = InState("Stopped", "none", 0)
    /\ manager = [restart_count |-> 0, spawned |-> 0, restartTimer |-> 0,
                  backoffs |-> << >>, signals |-> << >>]
    /\ health = [failures |-> 0, successes |-> 0, degraded |-> FALSE,
                 loops |-> {}, probes |-> {}]
    /\ logs = [files |-> { LogFile(s, 0) : s \in Streams },
               size |-> [s \in Streams |-> 0],
               rotated |-> [s \in Streams |-> 0]]

----------------------------------------------------------------------------
\* A sidecar that has launched no browser yet.
InitSessions ==
    /\ activeBrowsers = [a \in Accounts |-> NoSession]
    /\ loginWatchers = [a \in Accounts |-> 0]
    /\ timers = << >>
    /\ inflight = {}
    /\ ctxs = << >>
    /\ fpFile = [a \in Accounts |-> NoFile]
    /\ cookieFile = [a \in Accounts |-> "none"]
    /\ pageIn = [a \in Accounts |-> FALSE]
    /\ calls = [c \in Slots |-> Idle]
    /\ nCalls = 0
    /\ ret = NoRet
    /\ ghost = [w |-> << >>, gen |-> [a \in Accounts |-> 0]]

Init == InitHost /\ InitSessions

----------------------------------------------------------------------------
(* launchBrowser                                                            *)

FingerprintExistsNever(a) == FALSE

\* fs.pathExists(fingerprintPath)
FingerprintExists(a) == fpFile[a] # NoFile

AlreadyActiveNever(a) == FALSE

\* activeBrowsers.has(accountId)
AlreadyActive(a) == HasSession(a)

\* The session object stored by activeBrowsers.set(accountId, {...}).
NewSession(c) ==
    [ctx |-> calls[c].ctx, fingerprint |-> calls[c].fp, proxy |-> calls[c].proxy,
     platformId |-> calls[c].platformId, userDataDir |-> calls[c].a,
     launchedAt |-> Now, isLoggedIn |-> FALSE, loginDetectedAt |-> Never]

\* The call arrives and suspends at `await ensureProfilesDir()`.
LaunchCall(c, a, inp) ==
    /\ FreeSlot(c)
    /\ calls' = [calls EXCEPT ![c] = [Idle EXCEPT !.op = "launch", !.a = a, !.pc = "ensure",
                                         !.platformId = inp.platformId, !.proxy = inp.proxy]]
    /\ nCalls' = nCalls + 1
    /\ ret' = NoRet
    /\ UNCHANGED << hostVars, activeBrowsers, loginWatchers, timers, inflight, ctxs, fpFile,
                    cookieFile, pageIn, ghost >>

\* if (activeBrowsers.has(accountId)) return 'Browser already active';
\* otherwise loadOrCreateFingerprint suspends at `await fs.pathExists`.
LaunchCheck(c) ==
    /\ calls[c].op = "launch" /\ calls[c].pc = "ensure"
    /\ IF AlreadyActive(calls[c].a)
       THEN calls' = Finished(c) /\ ret' = Ret(c, "already")
       ELSE calls' = At(c, "fpExists") /\ ret' = NoRet
    /\ UNCHANGED << hostVars, activeBrowsers, loginWatchers, timers, inflight, ctxs, fpFile,
                    cookieFile, pageIn, nCalls, ghost >>

\* pathExists resolves: either readJson is started, or generateFingerprint()
\* runs and ensureDir/writeJson are started.
LaunchFpExists(c) ==
    /\ calls[c].op = "launch" /\ calls[c].pc = "fpExists"
    /\ IF FingerprintExists(calls[c].a)
       THEN /\ calls' = At(c, "fpRead")
            /\ ghost' = ghost
       ELSE \E f \in FpVals :
              /\ calls' = [calls EXCEPT ![c].pc = "fpWrite", ![c].fp = f]
              /\ ghost' = [ghost EXCEPT !.gen[calls[c].a] = @ + 1]
    /\ ret' = NoRet
    /\ UNCHANGED << hostVars, activeBrowsers, loginWatchers, timers, inflight, ctxs, fpFile,
                    cookieFile, pageIn, nCalls >>

\* readJson resolves with the file's content (it rejects if the file is gone, and
\* launchBrowser, which calls loadOrCreateFingerprint outside its try, rejects too).
LaunchFpRead(c) ==
    /\ calls[c].op = "launch" /\ calls[c].pc = "fpRead"
    /\ IF fpFile[calls[c].a] = NoFile
       THEN calls' = Finished(c) /\ ret' = Ret(c, "threw")
       ELSE /\ calls' = [calls EXCEPT ![c].pc = "ctxOpen", ![c].fp = fpFile[calls[c].a]]
            /\ ret' = NoRet
    /\ UNCHANGED << hostVars, activeBrowsers, loginWatchers, timers, inflight, ctxs, fpFile,
                    cookieFile, pageIn, nCalls, ghost >>

\* writeJson resolves; fs.ensureDir(userDataDir) and findFreePort() follow, then
\* chromium.launchPersistentContext is started.
LaunchFpWrite(c) ==
    /\ calls[c].op = "launch" /\ calls[c].pc = "fpWrite"
    /\ fpFile' = [fpFile EXCEPT ![calls[c].a] = calls[c].fp]
    /\ calls' = At(c, "ctxOpen")
    /\ ret' = NoRet
    /\ UNCHANGED << hostVars, activeBrowsers, loginWatchers, timers, inflight, ctxs,
                    cookieFile, pageIn, nCalls, ghost >>

LaunchErrorGeneric(err) == "error"

\* What the catch block of launchBrowser returns for an error.
LaunchError(err) == IF err = "noexe" THEN "chromeMissing" ELSE "error"

\* launchPersistentContext resolves with a context on the profile directory, or
\* rejects (executable missing, profile locked by another browser, timeout...).
LaunchCtxOpen(c) ==
    /\ calls[c].op = "launch" /\ calls[c].pc = "ctxOpen"
    /\ \E out \in {"ok", "noexe", "other"} :
         IF out = "ok"
         THEN /\ ctxs' = Append(ctxs, [profile |-> calls[c].a, open |-> TRUE, stealth |-> FALSE])
              /\ calls' = [calls EXCEPT ![c].pc = "init", ![c].ctx = Len(ctxs) + 1]
              /\ ret' = NoRet
         ELSE /\ ctxs' = ctxs
              /\ calls' = Finished(c)
              /\ ret' = [Ret(c, LaunchError(out)) EXCEPT !.cause = out]
    /\ UNCHANGED << hostVars, activeBrowsers, loginWatchers, timers, inflight, fpFile,
                    cookieFile, pageIn, nCalls, ghost >>

addInitScriptSkipped(x) == ctxs

\* await browserContext.addInitScript(generateStealthScripts(fingerprint))
addInitScript(x) == [ctxs EXCEPT ![x].stealth = TRUE]

\* newPage (if needed) and addInitScript resolve, and the session is stored; or one
\* of them rejects and the catch block returns the error.
LaunchInit(c) ==
    /\ calls[c].op = "launch" /\ calls[c].pc = "init"
    /\ \E ok \in BOOLEAN :
         IF ok
         THEN /\ ctxs' = addInitScript(calls[c].ctx)
              /\ activeBrowsers' = [activeBrowsers EXCEPT ![calls[c].a] = NewSession(c)]
              /\ ret' = [Ret(c, "launched") EXCEPT !.fp = calls[c].fp]
         ELSE /\ ctxs' = ctxs
              /\ activeBrowsers' = activeBrowsers
              /\ ret' = [Ret(c, LaunchError("other")) EXCEPT !.cause = "other"]
    /\ calls' = Finished(c)
    /\ UNCHANGED << hostVars, loginWatchers, timers, inflight, fpFile,
                    cookieFile, pageIn, nCalls, ghost >>

----------------------------------------------------------------------------
(* navigateTo                                                               *)

\* const session = activeBrowsers.get(accountId); a missing session returns at once,
\* otherwise the call suspends at `await session.page.goto(url, ...)`.
NavCall(a, watchLogin) ==
    /\ IF ~HasSession(a)
       THEN calls' = calls /\ ret' = [NoRet EXCEPT !.op = "navigate", !.a = a, !.res = "notfound"]
       ELSE /\ \E c \in Slots :
                 /\ FreeSlot(c)
                 /\ calls' = [calls EXCEPT ![c] = [Idle EXCEPT !.op = "navigate", !.a = a,
                                  !.pc = "goto", !.ctx = activeBrowsers[a].ctx,
                                  !.flag = watchLogin]]
            /\ ret' = NoRet
    /\ nCalls' = nCalls + 1
    /\ UNCHANGED << hostVars, activeBrowsers, loginWatchers, timers, inflight, ctxs, fpFile,
                    cookieFile, pageIn, ghost >>

NavFailedStops(c) ==
    /\ calls' = Finished(c)
    /\ ret' = Ret(c, "error")
    /\ timers' = StopTimers(calls[c].a)
    /\ loginWatchers' = StopWatchers(calls[c].a)
    /\ activeBrowsers' = activeBrowsers

\* catch (error) { return { success: false, error: error.message }; }
NavFailed(c) ==
    /\ calls' = Finished(c)
    /\ ret' = Ret(c, "error")
    /\ UNCHANGED << activeBrowsers, loginWatchers, timers >>

\* goto resolves (only a live context can load a page) or rejects (timeout, closed
\* context, network error); a rejection is returned as { success: false }.
NavGoto(c) ==
    /\ calls[c].op = "navigate" /\ calls[c].pc = "goto"
    /\ \E ok \in BOOLEAN :
         /\ ok => CtxOpen(calls[c].ctx)
         /\ IF ok
            THEN /\ calls' = At(c, "settle") /\ ret' = NoRet
                 /\ UNCHANGED << activeBrowsers, loginWatchers, timers >>
            ELSE NavFailed(c)
    /\ UNCHANGED << hostVars, inflight, ctxs, fpFile, cookieFile, pageIn, nCalls, ghost >>

\* const maxAttempts = 12
maxAttempts == 12

\* isCloudflareChallenge(session.page) resolved true: handleCloudflareChallenge is
\* entered, and after its first simulateHumanBehavior the loop awaits its first
\* isCloudflareChallenge.
NavChallengeFound(c) ==
    /\ calls[c].op = "navigate" /\ calls[c].pc = "settle" /\ calls[c].challenge = "none"
    /\ calls' = [calls EXCEPT ![c].pc = "challenge", ![c].challenge = "found",
                              ![c].moves = 1]
    /\ ret' = NoRet
    /\ UNCHANGED << hostVars, activeBrowsers, loginWatchers, timers, inflight, ctxs, fpFile,
                    cookieFile, pageIn, nCalls, ghost >>

\* while (attempts < maxAttempts): the challenge is gone and the handler returns
\* true, or it is still there, the loop sleeps and attempts++; when the loop runs
\* out the handler returns false. navigateTo drops the returned value.
ChallengeAfter(attempts, still) ==
    IF ~still THEN "passed"
    ELSE IF attempts + 1 < maxAttempts THEN "found"
    ELSE "timeout"

MovesPointerAlways(attempts) == TRUE

\* if (attempts % 3 === 0) await simulateHumanBehavior(page)
MovesPointer(attempts) == attempts % 3 = 0

\* What one poll of the loop found, and the attempt index it had.
Polled(c, still) ==
    [NoRet EXCEPT !.op = "poll", !.a = calls[c].a, !.t = calls[c].attempts,
                  !.cause = IF still THEN "challenge" ELSE "clear"]

\* One turn of the loop of handleCloudflareChallenge.
NavChallenge(c) ==
    /\ calls[c].op = "navigate" /\ calls[c].pc = "challenge"
    /\ \E still \in BOOLEAN :
         LET after == ChallengeAfter(calls[c].attempts, still)
         IN  /\ calls' = [calls EXCEPT
                    ![c].challenge = after,
                    ![c].attempts = IF still THEN @ + 1 ELSE @,
                    ![c].moves = IF still /\ MovesPointer(calls[c].attempts) THEN @ + 1 ELSE @,
                    ![c].pc = IF after = "found" THEN "challenge" ELSE "settle"]
             /\ ret' = Polled(c, still)
    /\ UNCHANGED << hostVars, activeBrowsers, loginWatchers, timers, inflight, ctxs, fpFile,
                    cookieFile, pageIn, nCalls, ghost >>

\* humanDelay, isCloudflareChallenge, handleCloudflareChallenge and
\* simulateHumanBehavior have all resolved (each swallows its own errors); then
\* `if (watchLogin) startLoginWatcher(accountId)` and the call returns success.
NavSettle(c) ==
    /\ calls[c].op = "navigate" /\ calls[c].pc = "settle"
    /\ IF calls[c].flag
       THEN /\ timers' = StartTimers(calls[c].a)
            /\ loginWatchers' = StartWatchers(calls[c].a)
            /\ ghost' = [ghost EXCEPT !.w = Append(@, NewGhost)]
       ELSE UNCHANGED << timers, loginWatchers, ghost >>
    /\ calls' = Finished(c)
    /\ ret' = Ret(c, "ok")
    /\ UNCHANGED << hostVars, activeBrowsers, inflight, ctxs, fpFile,
                    cookieFile, pageIn, nCalls >>

----------------------------------------------------------------------------
(* saveSession                                                              *)

\* A missing session returns at once; otherwise the call suspends at
\* `await session.browserContext.cookies()`.
SaveCall(a) ==
    /\ IF ~HasSession(a)
       THEN calls' = calls /\ ret' = [NoRet EXCEPT !.op = "save", !.a = a, !.res = "notfound"]
       ELSE /\ \E c \in Slots :
                 /\ FreeSlot(c)
                 /\ calls' = [calls EXCEPT ![c] = [Idle EXCEPT !.op = "save", !.a = a,
                                  !.pc = "cookies", !.ctx = activeBrowsers[a].ctx]]
            /\ ret' = NoRet
    /\ nCalls' = nCalls + 1
    /\ UNCHANGED << hostVars, activeBrowsers, loginWatchers, timers, inflight, ctxs, fpFile,
                    cookieFile, pageIn, ghost >>

\* cookies() and saveCookies() resolve and cookies.json is written, or one of them
\* rejects (always so for a closed context) and the error is returned.
SaveDone(c) ==
    /\ calls[c].op = "save" /\ calls[c].pc = "cookies"
    /\ \E ok \in BOOLEAN :
         /\ ok => CtxOpen(calls[c].ctx)
         /\ IF ok
            THEN /\ cookieFile' = saveCookies(calls[c].a, Cookies(calls[c].a))
                 /\ ret' = Ret(c, "ok")
            ELSE /\ cookieFile' = cookieFile
                 /\ ret' = Ret(c, "error")
    /\ calls' = Finished(c)
    /\ UNCHANGED << hostVars, activeBrowsers, loginWatchers, timers, inflight, ctxs, fpFile,
                    pageIn, nCalls, ghost >>

----------------------------------------------------------------------------
(* startLoginWatcher and stopLoginWatcher, called by an importer of the     *)
(* module rather than by navigateTo and closeBrowser                        *)

StartWatcherCall(a) ==
    /\ timers' = StartTimers(a)
    /\ loginWatchers' = StartWatchers(a)
    /\ ghost' = [ghost EXCEPT !.w = Append(@, NewGhost)]
    /\ ret' = [NoRet EXCEPT !.op = "startLoginWatcher", !.a = a, !.res = "ok"]
    /\ nCalls' = nCalls + 1
    /\ UNCHANGED << hostVars, activeBrowsers, inflight, ctxs, fpFile, cookieFile, pageIn, calls >>

StopWatcherCall(a) ==
    /\ timers' = StopTimers(a)
    /\ loginWatchers' = StopWatchers(a)
    /\ ret' = [NoRet EXCEPT !.op = "stopLoginWatcher", !.a = a, !.res = "ok"]
    /\ nCalls' = nCalls + 1
    /\ UNCHANGED << hostVars, activeBrowsers, inflight, ctxs, fpFile, cookieFile, pageIn, calls,
                    ghost >>

----------------------------------------------------------------------------
(* The session operations that only use the page                            *)

QueryOps ==
    { "getPageInfo", "takeScreenshot", "executeScript", "checkLoginStatus",
      "getLoginState", "publishContent", "sendAIPrompt" }

\* isLoggedIn: session.isLoggedIn || false, loginDetectedAt: session.loginDetectedAt
\* || null. A field launchBrowser never set is FALSE, or Never, in the model.
getLoginState(session) ==
    [isLoggedIn |-> session.isLoggedIn, loginDetectedAt |-> session.loginDetectedAt]

QueryFindsAnything(a) == TRUE

\* const session = activeBrowsers.get(accountId); if (!session) return { success: false, ... }
QueryFindsSession(a) == HasSession(a)

\* Each of them looks the session up, returns the not-found value when there is
\* none, and otherwise works on session.page and returns what came of it; none of
\* them writes the session map, the watcher map or a profile file.
Query(op, a) ==
    /\ \E res \in (IF QueryFindsSession(a) THEN {"ok", "error"} ELSE {"notfound"}) :
          ret' = [NoRet EXCEPT !.op = op, !.a = a, !.res = res,
                               !.login = IF op = "getLoginState" /\ res = "ok" /\ HasSession(a)
                                         THEN getLoginState(activeBrowsers[a]) ELSE @]
    /\ nCalls' = nCalls + 1
    /\ UNCHANGED << hostVars, activeBrowsers, loginWatchers, timers, inflight, ctxs, fpFile,
                    cookieFile, pageIn, calls, ghost >>

----------------------------------------------------------------------------
(* closeBrowser                                                             *)

CloseFindsAnything(a) == TRUE

\* const session = activeBrowsers.get(accountId); if (!session) return not found
CloseFindsSession(a) == HasSession(a)

\* The first await of closeBrowser after stopLoginWatcher.
CloseFirstStep(save) == IF save THEN "save" ELSE "ctxClose"

\* A missing session returns at once. Otherwise stopLoginWatcher(accountId) runs and
\* the call suspends in saveSession (when asked to save) or in browserContext.close().
CloseCall(a, save) ==
    /\ IF ~CloseFindsSession(a)
       THEN /\ calls' = calls
            /\ ret' = [NoRet EXCEPT !.op = "close", !.a = a, !.res = "notfound"]
            /\ UNCHANGED << timers, loginWatchers >>
       ELSE /\ \E c \in Slots :
                 /\ FreeSlot(c)
                 /\ calls' = [calls EXCEPT ![c] = [Idle EXCEPT !.op = "close", !.a = a,
                                  !.pc = CloseFirstStep(save),
                                  !.ctx = activeBrowsers[a].ctx, !.flag = save]]
            /\ timers' = StopTimers(a)
            /\ loginWatchers' = StopWatchers(a)
            /\ ret' = NoRet
    /\ nCalls' = nCalls + 1
    /\ UNCHANGED << hostVars, activeBrowsers, inflight, ctxs, fpFile,
                    cookieFile, pageIn, ghost >>

\* saveSession inside closeBrowser has resolved; its result is ignored and
\* browserContext.close() is started.
CloseSave(c) ==
    /\ calls[c].op = "close" /\ calls[c].pc = "save"
    /\ \E ok \in BOOLEAN :
         /\ ok => CtxOpen(calls[c].ctx)
         /\ cookieFile' = IF ok THEN saveCookies(calls[c].a, Cookies(calls[c].a))
                          ELSE cookieFile
    /\ calls' = At(c, "ctxClose")
    /\ ret' = NoRet
    /\ UNCHANGED << hostVars, activeBrowsers, loginWatchers, timers, inflight, ctxs, fpFile,
                    pageIn, nCalls, ghost >>

\* browserContext.close() resolves and activeBrowsers.delete(accountId) runs, or it
\* rejects and the catch block returns the error.
CloseCtx(c) ==
    /\ calls[c].op = "close" /\ calls[c].pc = "ctxClose"
    /\ \E ok \in BOOLEAN :
         IF ok
         THEN /\ ctxs' = [ctxs EXCEPT ![calls[c].ctx].open = FALSE]
              /\ activeBrowsers' = [activeBrowsers EXCEPT ![calls[c].a] = NoSession]
              /\ calls' = MapDelete(Finished(c), calls[c].a)
              /\ ret' = Ret(c, "ok")
         ELSE /\ ctxs' = ctxs
              /\ activeBrowsers' = activeBrowsers
              /\ calls' = Finished(c)
              /\ ret' = Ret(c, "error")
    /\ UNCHANGED << hostVars, loginWatchers, timers, inflight, fpFile,
                    cookieFile, pageIn, nCalls, ghost >>

----------------------------------------------------------------------------
(* closeAllBrowsers                                                         *)

\* The keys the iterator of activeBrowsers.keys() has still to yield: the map is
\* iterated live, so a key set during the loop is yielded too. The map keeps its
\* keys in insertion order; which of the keys ahead comes first is left open.
Ahead(sessions, done) == { a \in Accounts : sessions[a] # NoSession /\ a \notin done }

\* What closeAllBrowsers returns (and POST /browser/close-all sends).
CloseAllRet(results) == [NoRet EXCEPT !.op = "closeAll", !.res = "ok", !.results = results]

\* The loop takes the next key and closeBrowser(accountId) runs up to its first
\* await: stopLoginWatcher, then saveSession is started (save defaults to true).
CloseAllVisit(c, op, a, cs, sessions, done, results) ==
    /\ calls' = [cs EXCEPT ![c] = [Idle EXCEPT !.op = op, !.a = a, !.pc = "save",
                                    !.ctx = sessions[a].ctx, !.flag = TRUE,
                                    !.done = done \cup {a}, !.results = results]]
    /\ timers' = StopTimers(a)
    /\ loginWatchers' = StopWatchers(a)
    /\ ret' = NoRet

\* The process after process.exit(0): the handler's slot is never left again.
Exit(results) == [Idle EXCEPT !.op = "shutdown", !.pc = "exited", !.results = results]

\* The loop goes on with a key that is ahead, or ends and the results are returned:
\* to the route, or to the signal handler, which then calls process.exit(0).
CloseAllStep(c, op, cs, sessions, done, results) ==
    IF Ahead(sessions, done) = {}
    THEN /\ calls' = [cs EXCEPT ![c] = IF op = "shutdown" THEN Exit(results) ELSE Idle]
         /\ ret' = IF op = "shutdown"
                   THEN [NoRet EXCEPT !.op = "shutdown", !.res = "exit", !.results = results]
                   ELSE CloseAllRet(results)
         /\ UNCHANGED << timers, loginWatchers >>
    ELSE \E a \in Ahead(sessions, done) :
            CloseAllVisit(c, op, a, cs, sessions, done, results)

\* closeAllBrowsers() is called: by POST /browser/close-all, or by a signal handler.
CloseAllCall(c) ==
    /\ FreeSlot(c)
    /\ CloseAllStep(c, "closeAll", calls, activeBrowsers, {}, << >>)
    /\ nCalls' = nCalls + 1
    /\ UNCHANGED << hostVars, activeBrowsers, inflight, ctxs, fpFile,
                    cookieFile, pageIn, ghost >>

\* process.on('SIGINT' / 'SIGTERM'): the handler calls closeAllBrowsers() and awaits it.
Signal(c) ==
    /\ FreeSlot(c)
    /\ CloseAllStep(c, "shutdown", calls, activeBrowsers, {}, << >>)
    /\ nCalls' = nCalls + 1
    /\ UNCHANGED << hostVars, activeBrowsers, inflight, ctxs, fpFile,
                    cookieFile, pageIn, ghost >>

\* saveSession inside the closeBrowser of the loop has resolved.
CloseAllSave(c) ==
    /\ calls[c].op \in {"closeAll", "shutdown"} /\ calls[c].pc = "save"
    /\ \E ok \in BOOLEAN :
         /\ ok => CtxOpen(calls[c].ctx)
         /\ cookieFile' = IF ok THEN saveCookies(calls[c].a, Cookies(calls[c].a))
                          ELSE cookieFile
    /\ calls' = At(c, "ctxClose")
    /\ ret' = NoRet
    /\ UNCHANGED << hostVars, activeBrowsers, loginWatchers, timers, inflight, ctxs, fpFile,
                    pageIn, nCalls, ghost >>

\* browserContext.close() of the loop's closeBrowser has settled: the entry is deleted
\* when it resolved, { accountId, ...result } is pushed, and the loop goes on.
CloseAllCtx(c) ==
    /\ calls[c].op \in {"closeAll", "shutdown"} /\ calls[c].pc = "ctxClose"
    /\ \E ok \in BOOLEAN :
         LET a == calls[c].a
             results == Append(calls[c].results, [accountId |-> a, success |-> ok])
         IN  IF ok
             THEN /\ ctxs' = [ctxs EXCEPT ![calls[c].ctx].open = FALSE]
                  /\ activeBrowsers' = [activeBrowsers EXCEPT ![a] = NoSession]
                  /\ CloseAllStep(c, calls[c].op, MapDelete(calls, a),
                                  [activeBrowsers EXCEPT ![a] = NoSession],
                                  calls[c].done \ {a}, results)
             ELSE /\ ctxs' = ctxs
                  /\ activeBrowsers' = activeBrowsers
                  /\ CloseAllStep(c, calls[c].op, calls, activeBrowsers, calls[c].done,
                                  results)
    /\ UNCHANGED << hostVars, inflight, fpFile, cookieFile, pageIn, nCalls, ghost >>

----------------------------------------------------------------------------
(* The interval callback of startLoginWatcher                               *)

\* The results checkLoginStatus can resolve with: the capability reports logged in
\* only for a logged-in profile; it reports logged out also when its page query
\* fails (the adapters swallow the error); the cookie fallback may reject.
Statuses(a) ==
    { [success |-> TRUE, isLoggedIn |-> FALSE], [success |-> FALSE, isLoggedIn |-> FALSE] }
    \cup (IF pageIn[a] THEN { [success |-> TRUE, isLoggedIn |-> TRUE] } ELSE {})

TimedOutEarly(count) == count > 1

\* if (checkCount > maxChecks) { stopLoginWatcher(accountId); return; }
TimedOut(count) == count > maxChecks

SessionGoneIgnored(a) == FALSE

\* const session = activeBrowsers.get(accountId); if (!session) { stop; return; }
SessionGone(a) == ~HasSession(a)

LoginDetectedAgain(status, was) == status.success /\ status.isLoggedIn

\* if (status.success && status.isLoggedIn && !wasLoggedIn)
LoginDetected(status, was) == status.success /\ status.isLoggedIn /\ ~was

LogoutDetectedNever(status, was) == FALSE

LogoutDetectedOnFailure(status, was) == ~status.isLoggedIn /\ was

\* else if (status.success && !status.isLoggedIn && wasLoggedIn)
LogoutDetected(status, was) == status.success /\ ~status.isLoggedIn /\ was

SetLoggedInFlagOnly(a, ctx, val, at) ==
    IF activeBrowsers[a].ctx = ctx
    THEN [activeBrowsers EXCEPT ![a].isLoggedIn = val]
    ELSE activeBrowsers

\* A write to a field of the session object the callback holds; it shows in the
\* session map only while that object is still the account's entry.
SetLoggedIn(a, ctx, val, at) ==
    IF activeBrowsers[a].ctx = ctx
    THEN [activeBrowsers EXCEPT ![a].isLoggedIn = val, ![a].loginDetectedAt = at]
    ELSE activeBrowsers

\* The capability results of the scenario "false, false, true, true, false".
Script == << FALSE, FALSE, TRUE, TRUE, FALSE >>

\* How far the ticks of a watcher have followed Script once tick n has observed
\* `status`: -1 as soon as they depart from it.
Follow(pos, n, status) ==
    IF pos = n - 1 /\ n <= Len(Script) /\ status.success /\ status.isLoggedIn = Script[n]
    THEN n
    ELSE -1

\* The number of a tick, kept by its callback for Follow: ticks past the end of
\* Script are all alike.
TickNo(n) == IF n > Len(Script) THEN Len(Script) + 1 ELSE n

\* The interval fires: checkCount++, the two guards, then checkLoginStatus is
\* started and the callback suspends at its await.
Tick(t) ==
    /\ timers[t].live
    /\ Cardinality({k \in inflight : k.t = t}) < MaxInflight
    /\ LET a == timers[t].acct
           n == timers[t].checkCount + 1
       IN  IF TimedOut(n) \/ SessionGone(a)
           THEN /\ timers' = StopTimers(a)
                /\ loginWatchers' = StopWatchers(a)
                /\ inflight' = inflight
                /\ ret' = Did(t, "stop")
           ELSE /\ timers' = [timers EXCEPT ![t].checkCount = n]
                /\ loginWatchers' = loginWatchers
                /\ inflight' = inflight \cup
                      { [t |-> t, n |-> TickNo(n), pc |-> "check", ctx |-> activeBrowsers[a].ctx,
                         sctx |-> 0] }
                /\ ret' = Did(t, "check")
    /\ UNCHANGED << hostVars, activeBrowsers, ctxs, fpFile, cookieFile, pageIn, calls, nCalls, ghost >>

\* What the tick made of the result of its check: the check failed, or it showed a
\* login, a logout, or no change.
CheckOutcome(status, was) ==
    IF ~status.success THEN "failed"
    ELSE IF LoginDetected(status, was) THEN "save"
    ELSE IF LogoutDetected(status, was) THEN "logout"
    ELSE "nothing"

\* checkLoginStatus resolves. On a detected login wasLoggedIn is set and
\* saveSession(accountId) is called, which looks the session up again; on a
\* detected logout the flags are cleared.
TickCheckDone(k) ==
    /\ k \in inflight /\ k.pc = "check"
    /\ LET t == k.t
           a == timers[t].acct
           was == timers[t].wasLoggedIn
       IN  \E st \in Statuses(a) :
             /\ IF LoginDetected(st, was)
                THEN /\ timers' = [timers EXCEPT ![t].wasLoggedIn = TRUE]
                     /\ inflight' = (inflight \ {k}) \cup
                           { [k EXCEPT !.pc = "save", !.sctx = activeBrowsers[a].ctx] }
                     /\ activeBrowsers' = activeBrowsers
                ELSE IF LogoutDetected(st, was)
                THEN /\ timers' = [timers EXCEPT ![t].wasLoggedIn = FALSE]
                     /\ inflight' = inflight \ {k}
                     /\ activeBrowsers' =
                           SetLoggedIn(a, k.ctx, FALSE, activeBrowsers[a].loginDetectedAt)
                ELSE /\ timers' = timers
                     /\ inflight' = inflight \ {k}
                     /\ activeBrowsers' = activeBrowsers
             /\ ret' = Did(t, CheckOutcome(st, was))
             /\ ghost' = [ghost EXCEPT
                   !.w[t] = LET pos == Follow(@.script, k.n, st)
                                fired == LoginDetected(st, was)
                            IN  [seen |-> IF st.success THEN st.isLoggedIn ELSE @.seen,
                                 script |-> pos,
                                 saves |-> IF pos < 0 THEN 0
                                           ELSE IF fired THEN @.saves + 1 ELSE @.saves,
                                 saveTick |-> IF pos < 0 THEN 0
                                              ELSE IF fired THEN k.n ELSE @.saveTick]]
    /\ UNCHANGED << hostVars, loginWatchers, ctxs, fpFile, cookieFile, pageIn, calls, nCalls >>

\* The saveSession of a detected login resolves (it wrote cookies.json if it found a
\* session whose context still answers); then session.isLoggedIn = true and
\* session.loginDetectedAt = Date.now().
TickSaveDone(k) ==
    /\ k \in inflight /\ k.pc = "save"
    /\ LET a == timers[k.t].acct
       IN  /\ \E ok \in BOOLEAN :
                /\ ok => CtxOpen(k.sctx)
                /\ cookieFile' = IF ok THEN saveCookies(a, Cookies(a))
                                 ELSE cookieFile
           /\ activeBrowsers' = SetLoggedIn(a, k.ctx, TRUE, Now)
    /\ inflight' = inflight \ {k}
    /\ ret' = Did(k.t, "saved")
    /\ UNCHANGED << hostVars, loginWatchers, timers, ctxs, fpFile, pageIn, calls, nCalls, ghost >>

----------------------------------------------------------------------------
(* The user of the browser logs in or out of the platform.                  *)

UserLogin(a) ==
    /\ \E x \in CtxIds : ctxs[x].profile = a /\ ctxs[x].open
    /\ pageIn' = [pageIn EXCEPT ![a] = ~pageIn[a]]
    /\ ret' = NoRet
    /\ UNCHANGED << hostVars, activeBrowsers, loginWatchers, timers, inflight, ctxs, fpFile,
                    cookieFile, calls, nCalls, ghost >>

----------------------------------------------------------------------------
(* The actions, for the accounts `As` the host drives, within a budget of API      *)
(* calls and of callbacks per interval.                                            *)

Launching(As, maxCalls) ==
    \/ \E c \in Slots, a \in As, inp \in LaunchInputs :
          nCalls < maxCalls /\ LaunchCall(c, a, inp)
    \/ \E c \in Slots : LaunchCheck(c)
    \/ \E c \in Slots : LaunchFpExists(c)
    \/ \E c \in Slots : LaunchFpRead(c)
    \/ \E c \in Slots : LaunchFpWrite(c)
    \/ \E c \in Slots : LaunchCtxOpen(c)
    \/ \E c \in Slots : LaunchInit(c)

Navigating(As, maxCalls) ==
    \/ \E a \in As, w \in BOOLEAN : nCalls < maxCalls /\ NavCall(a, w)
    \/ \E c \in Slots : NavGoto(c)
    \/ \E c \in Slots : NavSettle(c)

Saving(As, maxCalls) ==
    \/ \E a \in As : nCalls < maxCalls /\ SaveCall(a)
    \/ \E c \in Slots : SaveDone(c)

Closing(As, maxCalls) ==
    \/ \E a \in As, s \in BOOLEAN : nCalls < maxCalls /\ CloseCall(a, s)
    \/ \E c \in Slots : CloseSave(c)
    \/ \E c \in Slots : CloseCtx(c)

Ticking(maxTicks) ==
    \E t \in TimerIds : timers[t].checkCount < maxTicks /\ Tick(t)

Resuming ==
    \/ \E k \in inflight : TickCheckDone(k)
    \/ \E k \in inflight : TickSaveDone(k)

Watching(As, maxCalls) ==
    \/ \E a \in As : nCalls < maxCalls /\ StartWatcherCall(a)
    \/ \E a \in As : nCalls < maxCalls /\ StopWatcherCall(a)

Querying(As, maxCalls) ==
    nCalls < maxCalls /\ \E op \in QueryOps : \E a \in As : Query(op, a)

Challenging == \E c \in Slots : NavChallengeFound(c) \/ NavChallenge(c)

ClosingAll(maxCalls) ==
    \/ \E c \in Slots : nCalls < maxCalls /\ CloseAllCall(c)
    \/ \E c \in Slots : CloseAllSave(c)
    \/ \E c \in Slots : CloseAllCtx(c)

Using(As) ==
    \E a \in As : UserLogin(a)

(* The sidecar serving two accounts.                                               *)
Next ==
    \/ Launching(Accounts, MaxCalls)
    \/ Navigating(Accounts, MaxCalls)
    \/ Saving(Accounts, MaxCalls)
    \/ Closing(Accounts, MaxCalls)
    \/ Ticking(MaxTicks)
    \/ Resuming
    \/ Using(Accounts)

Spec == Init /\ [][Next]_vars

(* One launched session and its login watchers, each interval running to its end.  *)
InitActive ==
    /\ InitHost
    /\ activeBrowsers = [a \in Accounts |->
          IF a = "acc1"
          THEN [ctx |-> 1, fingerprint |-> "fpA", proxy |-> "none", platformId |-> "netease",
                userDataDir |-> a, launchedAt |-> Now, isLoggedIn |-> FALSE,
                loginDetectedAt |-> Never]
          ELSE NoSession]
    /\ loginWatchers = [a \in Accounts |-> 0]
    /\ timers = << >>
    /\ inflight = {}
    /\ ctxs = << [profile |-> "acc1", open |-> TRUE, stealth |-> TRUE] >>
    /\ fpFile = [a \in Accounts |-> IF a = "acc1" THEN "fpA" ELSE NoFile]
    /\ cookieFile = [a \in Accounts |-> "none"]
    /\ pageIn = [a \in Accounts |-> FALSE]
    /\ calls = [c \in Slots |-> Idle]
    /\ nCalls = 0
    /\ ret = NoRet
    /\ ghost = [w |-> << >>, gen |-> [a \in Accounts |-> IF a = "acc1" THEN 1 ELSE 0]]

NextWatcher ==
    \/ Navigating({"acc1"}, MaxWatcherCalls)
    \/ Closing({"acc1"}, MaxWatcherCalls)
    \/ Ticking(maxChecks + 1)
    \/ Resuming
    \/ Using({"acc1"})

SpecWatcher == InitActive /\ [][NextWatcher]_vars

Fairness ==
    /\ WF_vars(Ticking(maxChecks + 1))
    /\ WF_vars(Resuming)

SpecWatcherFair == SpecWatcher /\ Fairness

----------------------------------------------------------------------------
(* fingerprint.js, and the options launchBrowser builds from a fingerprint  *)

\* A user agent string, as the sequence of its parts; `includes` looks for a part.
USER_AGENTS ==
    { << "Mozilla/5.0", "Macintosh", "Intel Mac OS X 10_15_7", "Chrome/120.0.0.0" >>,
      << "Mozilla/5.0", "Windows NT 10.0", "Win64", "x64", "Chrome/120.0.0.0" >>,
      << "Mozilla/5.0", "Macintosh", "Intel Mac OS X 10_15_7", "Chrome/119.0.0.0" >>,
      << "Mozilla/5.0", "Windows NT 10.0", "Win64", "x64", "Chrome/119.0.0.0" >>,
      << "Mozilla/5.0", "Macintosh", "Intel Mac OS X 10_14_6", "Chrome/120.0.0.0" >> }

\* options.userAgent left out, or a string of the caller's.
NoAgent == << >>
OptionAgents ==
    { NoAgent,
      << "Mozilla/5.0", "X11", "Linux x86_64", "Chrome/120.0.0.0" >>,
      << "Mozilla/5.0", "iPhone", "CPU iPhone OS 17_0 like Mac OS X", "Safari/604.1" >>,
      << "Mozilla/5.0", "Macintosh", "Intel Mac OS X 13_0", "Firefox/121.0" >> }

SCREEN_RESOLUTIONS ==
    { [width |-> 1920, height |-> 1080], [width |-> 1366, height |-> 768],
      [width |-> 1536, height |-> 864], [width |-> 1440, height |-> 900],
      [width |-> 1280, height |-> 720], [width |-> 2560, height |-> 1440] }

TIMEZONES ==
    { "Asia/Shanghai", "Asia/Hong_Kong", "Asia/Tokyo", "Asia/Singapore",
      "America/New_York", "America/Los_Angeles", "Europe/London" }

LOCALES == { "zh-CN", "zh-TW", "en-US", "en-GB", "ja-JP" }

Includes(userAgent, part) == \E i \in DOMAIN userAgent : userAgent[i] = part

\* const isMac = userAgent.includes('Macintosh')
IsMac(userAgent) == Includes(userAgent, "Macintosh")

\* const platform = isMac ? 'MacIntel' : 'Win32'
PlatformOf(isMac) == IF isMac THEN "MacIntel" ELSE "Win32"

HardwareChoicesAnyOS(isMac) == {4, 8, 12, 16}

\* isMac ? randomChoice([8, 10, 12]) : randomChoice([4, 8, 12, 16])
HardwareChoices(isMac) == IF isMac THEN {8, 10, 12} ELSE {4, 8, 12, 16}

\* maxTouchPoints: isMac ? 0 : randomChoice([0, 5, 10])
TouchChoices(isMac) == IF isMac THEN {0} ELSE {0, 5, 10}

\* Offsets in minutes; `offsets[timezone] || 0`.
getTimezoneOffset(timezone) ==
    CASE timezone \in {"Asia/Shanghai", "Asia/Hong_Kong", "Asia/Singapore"} -> -480
      [] timezone = "Asia/Tokyo" -> -540
      [] timezone = "America/New_York" -> 300
      [] timezone = "America/Los_Angeles" -> 480
      [] OTHER -> 0

\* Every fingerprint generateFingerprint(options) can return, in the fields that
\* the context options and the OS family depend on.
generateFingerprint(options) ==
    UNION { LET isMac == IsMac(userAgent)
            IN  { [screen |-> screen,
                   navigator |-> [userAgent |-> userAgent,
                                  platform |-> PlatformOf(isMac),
                                  language |-> locale,
                                  hardwareConcurrency |-> hardwareConcurrency,
                                  maxTouchPoints |-> maxTouchPoints],
                   timezone |-> [id |-> timezone, offset |-> getTimezoneOffset(timezone)]] :
                  screen \in SCREEN_RESOLUTIONS, locale \in LOCALES, timezone \in TIMEZONES,
                  hardwareConcurrency \in HardwareChoices(isMac),
                  maxTouchPoints \in TouchChoices(isMac) } :
            userAgent \in (IF options.userAgent = NoAgent THEN USER_AGENTS
                           ELSE {options.userAgent}) }

\* Degrees in units of 1/10000; `locations[timezone] || { latitude: 0, longitude: 0 }`.
getGeolocationFromTimezone(timezone) ==
    CASE timezone = "Asia/Shanghai" -> [latitude |-> 312304, longitude |-> 1214737]
      [] timezone = "Asia/Hong_Kong" -> [latitude |-> 223193, longitude |-> 1141694]
      [] timezone = "Asia/Tokyo" -> [latitude |-> 356762, longitude |-> 1396503]
      [] timezone = "Asia/Singapore" -> [latitude |-> 13521, longitude |-> 1038198]
      [] timezone = "America/New_York" -> [latitude |-> 407128, longitude |-> -740060]
      [] timezone = "America/Los_Angeles" -> [latitude |-> 340522, longitude |-> -1182437]
      [] timezone = "Europe/London" -> [latitude |-> 515074, longitude |-> -1278]
      [] OTHER -> [latitude |-> 0, longitude |-> 0]

applyFingerprintToContext(fingerprint) ==
    [userAgent |-> fingerprint.navigator.userAgent,
     viewport |-> [width |-> fingerprint.screen.width, height |-> fingerprint.screen.height],
     locale |-> fingerprint.navigator.language,
     timezoneId |-> fingerprint.timezone.id,
     geolocation |-> getGeolocationFromTimezone(fingerprint.timezone.id)]

\* { ...base, ...over }
Spread(base, over) ==
    [k \in DOMAIN base \cup DOMAIN over |-> IF k \in DOMAIN over THEN over[k] ELSE base[k]]

\* const contextOptions = { ...fingerprintOptions, viewport: null, locale: ...,
\* timezoneId: 'Asia/Shanghai', ... } and the proxy, when one is given.
ContextOptions(fingerprint, proxy) ==
    Spread(Spread(applyFingerprintToContext(fingerprint),
                  [viewport |-> "null",
                   locale |-> fingerprint.navigator.language,
                   timezoneId |-> "Asia/Shanghai"]),
           IF proxy = "none" THEN << >> ELSE [proxy |-> proxy])

\* generateFingerprint is called, once in a behaviour, and returns.
GenerateFingerprint ==
    /\ ret = NoRet
    /\ \E userAgent \in OptionAgents :
          \E fingerprint \in generateFingerprint([userAgent |-> userAgent]) :
             ret' = [NoRet EXCEPT !.op = "generateFingerprint", !.fp = fingerprint]
    /\ UNCHANGED << hostVars, activeBrowsers, loginWatchers, timers, inflight, ctxs, fpFile,
                    cookieFile, pageIn, calls, nCalls, ghost >>

\* launchBrowser builds the options it hands to launchPersistentContext from the
\* fingerprint it was given.
BuildOptions ==
    /\ ret.op = "generateFingerprint"
    /\ \E inp \in LaunchInputs :
          ret' = [NoRet EXCEPT !.op = "finalOptions", !.fp = ret.fp,
                               !.res = ContextOptions(ret.fp, inp.proxy)]
    /\ UNCHANGED << hostVars, activeBrowsers, loginWatchers, timers, inflight, ctxs, fpFile,
                    cookieFile, pageIn, calls, nCalls, ghost >>

NextFingerprint == GenerateFingerprint \/ BuildOptions

SpecFingerprint == Init /\ [][NextFingerprint]_vars

----------------------------------------------------------------------------
\* One launched account whose pages may be bot-challenge pages.
NextChallenge ==
    \/ Navigating({"acc1"}, MaxChallengeCalls)
    \/ Challenging
    \/ Closing({"acc1"}, MaxChallengeCalls)
    \/ Ticking(MaxTicks)
    \/ Resuming
    \/ Using({"acc1"})

SpecChallenge == InitActive /\ [][NextChallenge]_vars

\* Every poll of the page and every 5 s sleep of the loop resolves.
SpecChallengeFair == SpecChallenge /\ \A c \in Slots : WF_vars(NavChallenge(c))

\* One launched account and one that was never launched, with every session
\* operation called on either.
NextOps ==
    \/ Navigating(Accounts, MaxOpsCalls)
    \/ Saving(Accounts, MaxOpsCalls)
    \/ Querying(Accounts, MaxOpsCalls)
    \/ Closing({"acc1"}, MaxOpsCalls)
    \/ Ticking(MaxTicks)
    \/ Resuming
    \/ Using({"acc1"})

SpecOps == InitActive /\ [][NextOps]_vars

\* Watchers started and stopped by navigateTo, closeBrowser and direct calls, on an
\* account with a session and on one without.
NextTimers ==
    \/ Navigating(Accounts, MaxTimerCalls)
    \/ Closing(Accounts, MaxTimerCalls)
    \/ Watching(Accounts, MaxTimerCalls)
    \/ Ticking(MaxTicks)
    \/ Resuming
    \/ Using({"acc1"})

SpecTimers == InitActive /\ [][NextTimers]_vars

\* Two launched sessions: pages are opened in one, the other is also closed by
\* itself, and all are closed at once.
InitBoth ==
    /\ InitHost
    /\ activeBrowsers = [a \in Accounts |->
          [ctx |-> IF a = "acc1" THEN 1 ELSE 2, fingerprint |-> "fpA", proxy |-> "none",
           platformId |-> "netease", userDataDir |-> a, launchedAt |-> Now,
           isLoggedIn |-> FALSE, loginDetectedAt |-> Never]]
    /\ loginWatchers = [a \in Accounts |-> 0]
    /\ timers = << >>
    /\ inflight = {}
    /\ ctxs = << [profile |-> "acc1", open |-> TRUE, stealth |-> TRUE],
                 [profile |-> "acc2", open |-> TRUE, stealth |-> TRUE] >>
    /\ fpFile = [a \in Accounts |-> "fpA"]
    /\ cookieFile = [a \in Accounts |-> "none"]
    /\ pageIn = [a \in Accounts |-> FALSE]
    /\ calls = [c \in Slots |-> Idle]
    /\ nCalls = 0
    /\ ret = NoRet
    /\ ghost = [w |-> << >>, gen |-> [a \in Accounts |-> 1]]

NextCloseAll ==
    \/ Navigating({"acc1"}, MaxCloseAllCalls)
    \/ Closing({"acc2"}, MaxCloseAllCalls)
    \/ ClosingAll(MaxCloseAllCalls)
    \/ Ticking(MaxTicks)
    \/ Resuming
    \/ Using({"acc1"})

SpecCloseAll == InitBoth /\ [][NextCloseAll]_vars

\* One account launched, watched, asked for its login state, and closed.
NextLogin ==
    \/ Launching({"acc1"}, MaxLoginCalls)
    \/ Navigating({"acc1"}, MaxLoginCalls)
    \/ nCalls < MaxLoginCalls /\ Query("getLoginState", "acc1")
    \/ Closing({"acc1"}, MaxLoginCalls)
    \/ Ticking(MaxTicks)
    \/ Resuming
    \/ Using({"acc1"})

SpecLogin == Init /\ [][NextLogin]_vars

\* process.exit(0) has run.
Exited == \E c \in Slots : calls[c].pc = "exited"

Signalling(maxCalls) ==
    \/ \E c \in Slots : nCalls < maxCalls /\ Signal(c)
    \/ \E c \in Slots : CloseAllSave(c)
    \/ \E c \in Slots : CloseAllCtx(c)

\* Browsers are launched, a signal arrives, and nothing runs after the exit.
NextSignal ==
    \/ ~Exited /\ Launching(Accounts, MaxSignalCalls)
    \/ ~Exited /\ Signalling(MaxSignalCalls)

SpecSignal == Init /\ [][NextSignal]_vars

\* Every saveSession and browserContext.close() the handler awaits settles.
SpecSignalFair ==
    SpecSignal /\ \A c \in Slots : WF_vars(~Exited /\ (CloseAllSave(c) \/ CloseAllCtx(c)))

----------------------------------------------------------------------------
(* deleteProfile, and POST /platforms/:platformId/restore                    *)

\* fs.remove(getProfilePath(platformId)): the directory goes, with the fingerprint
\* and the cookie file in it, whether or not a session uses it; or the removal fails
\* and the error is returned.
DeleteProfile(a) ==
    /\ \E ok \in BOOLEAN :
         /\ fpFile' = IF ok THEN [fpFile EXCEPT ![a] = NoFile] ELSE fpFile
         /\ cookieFile' = IF ok THEN [cookieFile EXCEPT ![a] = "none"] ELSE cookieFile
         /\ ret' = [NoRet EXCEPT !.op = "deleteProfile", !.a = a,
                                 !.res = IF ok THEN "ok" ELSE "error"]
    /\ nCalls' = nCalls + 1
    /\ UNCHANGED << hostVars, activeBrowsers, loginWatchers, timers, inflight, ctxs,
                    pageIn, calls, ghost >>

\* The restore endpoint writes the cookies and the fingerprint of the request, each
\* if the request has it, into profiles/<platformId>. The two files are written one
\* after the other; no other operation reads both.
RestoreProfile(a, cookies, fingerprint) ==
    /\ cookieFile' = IF cookies # "none" THEN saveCookies(a, cookies) ELSE cookieFile
    /\ fpFile' = IF fingerprint # NoFile THEN [fpFile EXCEPT ![a] = fingerprint] ELSE fpFile
    /\ ret' = [NoRet EXCEPT !.op = "restore", !.a = a, !.res = "ok", !.fp = fingerprint]
    /\ nCalls' = nCalls + 1
    /\ UNCHANGED << hostVars, activeBrowsers, loginWatchers, timers, inflight, ctxs,
                    pageIn, calls, ghost >>

Restoring(As, maxCalls) ==
    \/ \E a \in As : nCalls < maxCalls /\ DeleteProfile(a)
    \/ \E a \in As, cookies \in {"none", "in"}, fingerprint \in {NoFile} \cup FpVals :
          nCalls < maxCalls /\ RestoreProfile(a, cookies, fingerprint)

\* Browsers launched and closed while profiles are deleted and restored.
NextProfiles ==
    \/ Launching(Accounts, MaxProfileCalls)
    \/ Closing(Accounts, MaxProfileCalls)
    \/ Restoring(Accounts, MaxProfileCalls)

SpecProfiles == Init /\ [][NextProfiles]_vars

----------------------------------------------------------------------------
(* SidecarManager: start(), stop(graceful), status() and the restart policy  *)

\* What a host-side operation returns or emits.
HostRet(op, res, cause) == [NoRet EXCEPT !.op = op, !.res = res, !.cause = cause]

\* A new poll loop starts with both counters at zero; whether a degradation is
\* still unrecovered is kept.
NewLoop(pid) ==
    [health EXCEPT !.failures = 0, !.successes = 0, !.loops = {pid}, !.probes = {}]

CancelPollsForgotten(h) == h

\* The poll loop and the probe in flight are cancelled.
CancelPolls(h) == [h EXCEPT !.loops = {}, !.probes = {}]

AlreadyStartedRunningOnly(kind) == kind = "Running"

\* start() has nothing to do while Starting or Running.
AlreadyStarted(kind) == kind \in {"Starting", "Running"}

\* start(): a no-op returning the status while Starting or Running; from Stopped
\* or Failed a start attempt begins. A stop in progress holds the state guard.
StartCall ==
    /\ sidecarState.kind # "Stopping"
    /\ IF AlreadyStarted(sidecarState.kind)
       THEN /\ ret' = HostRet("start", "noop", sidecarState.kind)
            /\ UNCHANGED sidecarState
       ELSE /\ manager.spawned < MaxSpawns
            /\ sidecarState' = InState("Starting", StartStages[1], 0)
            /\ ret' = HostRet("start", "starting", sidecarState.kind)
    /\ UNCHANGED << sessionVars, manager, health, logs >>

StartFailureStopped(out) == IF out = "fail" THEN "Stopped" ELSE "Starting"

\* Starting -> Failed when the dependency check, the installation, the spawn or
\* the wait for health fails.
StartFailure(out) == IF out = "fail" THEN "Failed" ELSE "Starting"

\* The stage after `stage`: installing is skipped when nothing is missing.
NextStage(stage, out) ==
    CASE stage = StartStages[1] -> IF out = "missing" THEN StartStages[2] ELSE StartStages[3]
      [] stage = StartStages[2] -> StartStages[3]
      [] stage = StartStages[3] -> StartStages[4]
      [] OTHER -> StartStages[5]

\* The start attempt checks and installs its dependencies.
StartDependencies ==
    /\ sidecarState.kind = "Starting"
    /\ sidecarState.stage \in {StartStages[1], StartStages[2]}
    /\ \E out \in {"ok", "missing", "fail"} :
         /\ out = "missing" => sidecarState.stage = StartStages[1]
         /\ sidecarState' =
               IF StartFailure(out) = "Starting"
               THEN InState("Starting", NextStage(sidecarState.stage, out), 0)
               ELSE InState(StartFailure(out), "none", 0)
         /\ ret' = HostRet("start", sidecarState'.kind, out)
    /\ UNCHANGED << sessionVars, manager, health, logs >>

\* The start attempt spawns the subprocess.
StartSpawn ==
    /\ sidecarState.kind = "Starting" /\ sidecarState.stage = StartStages[3]
    /\ \E out \in {"ok", "fail"} :
         /\ sidecarState' =
               IF StartFailure(out) = "Starting"
               THEN InState("Starting", NextStage(sidecarState.stage, out),
                            manager.spawned + 1)
               ELSE InState(StartFailure(out), "none", 0)
         /\ manager' = IF out = "ok" THEN [manager EXCEPT !.spawned = @ + 1] ELSE manager
         /\ ret' = HostRet("start", sidecarState'.kind, out)
    /\ UNCHANGED << sessionVars, health, logs >>

\* The start attempt waits for one successful health check: Running, with the poll
\* loop of the new process started; or the start timeout passes and the attempt fails.
StartHealth ==
    /\ sidecarState.kind = "Starting" /\ sidecarState.stage = StartStages[4]
    /\ \E out \in {"ok", "fail"} :
         /\ sidecarState' =
               IF StartFailure(out) = "Starting"
               THEN InState("Running", NextStage(sidecarState.stage, out), sidecarState.pid)
               ELSE InState(StartFailure(out), "none", 0)
         /\ health' = IF out = "ok" THEN NewLoop(sidecarState.pid) ELSE health
         /\ ret' = HostRet("start", sidecarState'.kind, out)
    /\ UNCHANGED << sessionVars, manager, logs >>

CancelRestartForgotten(m) == m

\* The pending restart timer is cancelled.
CancelRestart(m) == [m EXCEPT !.restartTimer = 0]

\* stop(graceful): Running -> Stopping; the poll loop and a pending restart are
\* cancelled and the terminate request is sent (a forced stop kills at once).
\* Anywhere else there is nothing to stop.
StopCall(graceful) ==
    /\ sidecarState.kind # "Stopping"
    /\ IF sidecarState.kind = "Running"
       THEN /\ sidecarState' = [sidecarState EXCEPT !.kind = "Stopping", !.stage = "none"]
            /\ manager' = [CancelRestart(manager) EXCEPT
                              !.signals = IF graceful THEN << "terminate" >> ELSE << "kill" >>]
            /\ health' = CancelPolls(health)
            /\ ret' = HostRet("stop", "stopping", IF graceful THEN "graceful" ELSE "forced")
       ELSE /\ ret' = HostRet("stop", "noop", sidecarState.kind)
            /\ UNCHANGED << sidecarState, manager, health >>
    /\ UNCHANGED << sessionVars, logs >>

ShutdownSignalsPatient(signals, exited) == signals

\* graceful_shutdown after the wait: a process that has not exited is force-killed.
ShutdownSignals(signals, exited) == IF exited THEN signals ELSE Append(signals, "kill")

\* The wait of stop() ends: the process exited within shutdown_timeout, or the
\* timeout elapsed. A killed process always exits.
StopWait ==
    /\ sidecarState.kind = "Stopping"
    /\ \E exited \in BOOLEAN :
         /\ manager.signals = << "kill" >> => exited
         /\ manager' = [manager EXCEPT !.signals = ShutdownSignals(@, exited)]
         /\ ret' = HostRet("stop", "stopped", IF exited THEN "exited" ELSE "timeout")
    /\ sidecarState' = InState("Stopped", "none", 0)
    /\ UNCHANGED << sessionVars, health, logs >>

\* status() reads the state in memory.
Status ==
    /\ ret' = [HostRet("status", sidecarState.kind, "none") EXCEPT !.t = manager.restart_count]
    /\ UNCHANGED << sessionVars, hostVars >>

----------------------------------------------------------------------------
(* HealthChecker                                                             *)

\* The poll loop of a running process sends its next probe.
ProbeStart ==
    /\ sidecarState.kind = "Running"
    /\ health.failures < MaxStreak /\ health.successes < MaxStreak
    /\ \E i \in health.loops :
         /\ i \notin health.probes
         /\ health' = [health EXCEPT !.probes = @ \cup {i}]
    /\ ret' = NoRet
    /\ UNCHANGED << sessionVars, sidecarState, manager, logs >>

\* The two counters after a probe: the opposite one is reset.
Counted(h, ok) ==
    IF ok THEN [h EXCEPT !.successes = @ + 1, !.failures = 0]
    ELSE [h EXCEPT !.failures = @ + 1, !.successes = 0]

DegradedWhileFailing(h, ok) == ~ok /\ Counted(h, ok).failures >= failure_threshold

\* "degraded" is emitted when the consecutive failures reach failure_threshold.
Degraded(h, ok) == ~ok /\ Counted(h, ok).failures = failure_threshold

\* "recovered" is emitted when the consecutive successes reach success_threshold
\* after a degraded event.
Recovered(h, ok) == ok /\ h.degraded /\ Counted(h, ok).successes = success_threshold

Event(h, ok) ==
    IF Degraded(h, ok) THEN "degraded"
    ELSE IF Recovered(h, ok) THEN "recovered"
    ELSE "none"

\* The checker after a probe result.
Probed(h, i, ok) ==
    [Counted(h, ok) EXCEPT !.probes = @ \ {i},
                           !.degraded = (@ \/ Degraded(h, ok)) /\ ~Recovered(h, ok)]

BackoffFlat(count) == 1

\* The backoff schedule 1s, 2s, 4s, 8s, 16s, capped.
Backoff(count) == IF count >= 4 THEN 16 ELSE 2 ^ count

\* The restart count has reached the maximum: no more automatic restarts.
Exhausted(count) == count >= max_restarts

\* After a recovery the restart count starts again from zero.
RecoveredCount(m) == [m EXCEPT !.restart_count = 0, !.backoffs = << >>]

\* A probe ends: timeout, refusal or a non-success answer is a failure. The
\* supervisor acts on the event: on "degraded" it schedules a restart after the
\* backoff delay, or gives up with Failed; on "recovered" it resets restart_count.
ProbeDone(ok) ==
    /\ \E i \in health.probes :
         LET event == Event(health, ok) IN
         /\ ret' = [HostRet("probe", event, IF ok THEN "ok" ELSE "fail") EXCEPT !.t = i]
         /\ IF event = "degraded" /\ Exhausted(manager.restart_count)
            THEN /\ sidecarState' = InState("Failed", "none", 0)
                 /\ health' = CancelPolls(Probed(health, i, ok))
                 /\ manager' = [manager EXCEPT !.restartTimer = 0]
            ELSE /\ sidecarState' = sidecarState
                 /\ health' = Probed(health, i, ok)
                 /\ manager' =
                       IF event = "degraded" /\ manager.restartTimer = 0
                       THEN [manager EXCEPT !.restartTimer = Backoff(manager.restart_count)]
                       ELSE IF event = "recovered" THEN RecoveredCount(manager)
                       ELSE manager
    /\ UNCHANGED << sessionVars, logs >>

RestartCountedTwice(count) == count + 2

\* An automatic restart adds one to restart_count.
RestartCounted(count) == count + 1

\* The backoff delay has passed: the loop and the probe of the old process are
\* cancelled, the old process is replaced by a new one, and its loop starts.
Restart ==
    /\ sidecarState.kind = "Running"
    /\ manager.restartTimer # 0
    /\ manager.spawned < MaxSpawns
    /\ sidecarState' = [sidecarState EXCEPT !.pid = manager.spawned + 1]
    /\ manager' = [manager EXCEPT !.restart_count = RestartCounted(@), !.spawned = @ + 1,
                                  !.backoffs = Append(@, manager.restartTimer),
                                  !.restartTimer = 0]
    /\ health' = [CancelPolls(health) EXCEPT !.failures = 0, !.successes = 0,
                      !.loops = @ \cup {manager.spawned + 1}]
    /\ ret' = HostRet("restart", "restarted", "none")
    /\ UNCHANGED << sessionVars, logs >>

\* Calls of the host, the start attempt, the poll loop and the restart timer.
Starting == StartCall \/ StartDependencies \/ StartSpawn \/ StartHealth

Stopping == (\E graceful \in BOOLEAN : StopCall(graceful)) \/ StopWait

Polling == ProbeStart \/ (\E ok \in BOOLEAN : ProbeDone(ok))

NextSupervisor == Starting \/ Stopping \/ Polling \/ Restart \/ Status

SpecSupervisor == Init /\ [][NextSupervisor]_vars

\* stop() waits no longer than shutdown_timeout.
SpecSupervisorFair == SpecSupervisor /\ WF_vars(StopWait)

\* A supervisor whose first start succeeded: one process, its poll loop running.
InitRunning ==
    /\ InitSessions
    /\ sidecarState = InState("Running", StartStages[5], 1)
    /\ manager = [restart_count |-> 0, spawned |-> 1, restartTimer |-> 0,
                  backoffs |-> << >>, signals |-> << >>]
    /\ health = [failures |-> 0, successes |-> 0, degraded |-> FALSE,
                 loops |-> {1}, probes |-> {}]
    /\ logs = [files |-> { LogFile(s, 0) : s \in Streams },
               size |-> [s \in Streams |-> 0],
               rotated |-> [s \in Streams |-> 0]]

\* A sidecar that answers no probe any more, and a host that only asks the status.
NextFailing == ProbeStart \/ ProbeDone(FALSE) \/ Restart \/ Status

\* The poll loop fires at every interval, a probe ends by its timeout at the latest,
\* and the backoff delay passes.
SpecFailing ==
    /\ InitRunning /\ [][NextFailing]_vars
    /\ WF_vars(ProbeStart) /\ WF_vars(ProbeDone(FALSE)) /\ WF_vars(Restart)

----------------------------------------------------------------------------
(* LogManager                                                                *)

\* A line of the sidecar's output, in MB: small, half a file, more than a file.
WriteSizes == {1, 5, 12}

Archives(files, stream) == { f \in files : f.stream = stream /\ f.archived # 0 }

\* The archive that was rotated first.
Oldest(files, stream) ==
    CHOOSE f \in Archives(files, stream) :
        \A g \in Archives(files, stream) : f.archived <= g.archived

PrunedNever(files, stream) == files

\* The oldest archive is deleted when there are more than retention_limit.
Pruned(files, stream) ==
    IF Cardinality(Archives(files, stream)) > retention_limit
    THEN files \ {Oldest(files, stream)}
    ELSE files

\* The current file is renamed to <name>-<timestamp>.log and a fresh one is opened.
Renamed(files, stream, stamp) ==
    (files \ {LogFile(stream, 0)}) \cup {LogFile(stream, stamp), LogFile(stream, 0)}

\* rotate_if_needed(), called with the size of the current file after a write.
NeedsRotation(size) == size > size_threshold

\* A line is appended to the current file of a stream, and rotate_if_needed() runs.
Write(stream, n) ==
    /\ logs.rotated[stream] < MaxRotations
    /\ LET size == logs.size[stream] + n
           stamp == logs.rotated[stream] + 1
       IN  IF NeedsRotation(size)
           THEN /\ logs' = [files |-> Pruned(Renamed(logs.files, stream, stamp), stream),
                            size |-> [logs.size EXCEPT ![stream] = 0],
                            rotated |-> [logs.rotated EXCEPT ![stream] = stamp]]
                /\ ret' = [HostRet("write", "rotated", stream) EXCEPT !.t = n]
           ELSE /\ logs' = [logs EXCEPT !.size[stream] = size]
                /\ ret' = [HostRet("write", "written", stream) EXCEPT !.t = n]
    /\ UNCHANGED << sessionVars, sidecarState, manager, health >>

\* clear_all(): every file is deleted and empty current files are created.
ClearAll ==
    /\ logs' = [logs EXCEPT !.files = { LogFile(s, 0) : s \in Streams },
                            !.size = [s \in Streams |-> 0]]
    /\ ret' = HostRet("clear", "cleared", "none")
    /\ UNCHANGED << sessionVars, sidecarState, manager, health >>

NextLog == (\E stream \in Streams, n \in WriteSizes : Write(stream, n)) \/ ClearAll

SpecLog == Init /\ [][NextLog]_vars

----------------------------------------------------------------------------
(* Properties                                                               *)

IsLoggedIn(a) == HasSession(a) /\ activeBrowsers[a].isLoggedIn

OpenOn(a) == { x \in CtxIds : ctxs[x].profile = a /\ ctxs[x].open }

InLoadOrCreate(c) == calls[c].op = "launch" /\ calls[c].pc \in {"fpExists", "fpRead", "fpWrite"}

PastCheck(c) == calls[c].op = "launch" /\ calls[c].pc # "ensure"

\* C1: two launchBrowser calls for one account that both pass the 'already active'
\* check open one browser context between them and both succeed: the one that
\* finishes after the session was stored returns 'already active', opens nothing
\* and leaves the stored session alone.
C1_ConcurrentLaunchOnce ==
    [][\A c \in Slots :
          (PastCheck(c) /\ HasSession(calls[c].a) /\ calls'[c] = Idle) =>
              /\ ret'.res = "already"
              /\ activeBrowsers' = activeBrowsers
              /\ Cardinality(OpenOn(calls[c].a)) <= 1]_vars

\* C2: within one watcher the save fires on exactly the ticks whose result takes the
\* observed login state from false to true; when its ticks observe false, false,
\* true, true, false the save has fired once, on the third tick; and the tick that
\* fired it then sets isLoggedIn and loginDetectedAt on its session.
C2_SaveOncePerTransition ==
    [][\A t \in TimerIds :
          /\ (ret' = Did(t, "save")) <=> (~ghost.w[t].seen /\ ghost'.w[t].seen)
          /\ ghost'.w[t].script >= 0 =>
                /\ ghost'.w[t].saves = (IF ghost'.w[t].script >= 3 THEN 1 ELSE 0)
                /\ ghost'.w[t].script >= 3 => ghost'.w[t].saveTick = 3
          /\ \A k \in inflight \ inflight' :
                (k.t = t /\ k.pc = "save" /\ activeBrowsers[timers[t].acct].ctx = k.ctx) =>
                    /\ activeBrowsers'[timers[t].acct].isLoggedIn
                    /\ activeBrowsers'[timers[t].acct].loginDetectedAt = Now]_vars

C2_Witness ==
    \E t \in TimerIds :
        /\ ghost.w[t].script = Len(Script)
        /\ ghost.w[t].saves = 1
        /\ IsLoggedIn(timers[t].acct) = FALSE

\* C3: closeBrowser on an account with a session stops the watcher as its first
\* step, saves only when asked and only before the context is torn down, and a close
\* that returns success leaves no session entry and no registered watcher.
C3_CloseOrder ==
    [][\A c \in Slots :
          /\ (calls[c] = Idle /\ calls'[c].op = "close") =>
                /\ loginWatchers'[calls'[c].a] = 0
                /\ calls'[c].pc = (IF calls'[c].flag THEN "save" ELSE "ctxClose")
          /\ (calls[c].op = "close" /\ calls[c].pc = "save" /\ calls'[c] # calls[c]) =>
                /\ calls'[c].pc = "ctxClose"
                /\ ctxs' = ctxs /\ activeBrowsers' = activeBrowsers
          /\ (calls[c].op = "close" /\ ret' = Ret(c, "ok") /\ calls'[c] = Idle) =>
                /\ ~ctxs'[calls[c].ctx].open
                /\ activeBrowsers'[calls[c].a] = NoSession
                /\ loginWatchers'[calls[c].a] = 0]_vars

\* C4: closeBrowser for an account without a session returns not-found at once and
\* changes neither the session map nor the watchers; it never gets as far as its
\* first await.
C4_CloseMissing ==
    [][/\ \A c \in Slots :
             (calls[c] = Idle /\ calls'[c].op = "close") => HasSession(calls'[c].a)
       /\ (ret'.op = "close" /\ ret'.res = "notfound" /\ nCalls' # nCalls) =>
             /\ ~HasSession(ret'.a)
             /\ UNCHANGED << activeBrowsers, loginWatchers, timers, inflight, ctxs,
                             cookieFile, calls >>]_vars

C4_Witness ==
    /\ ret.op = "close" /\ ret.res = "notfound"
    /\ \E b \in Accounts \ {ret.a} : HasSession(b) /\ loginWatchers[b] # 0

\* C5: no callback of a login watcher adds a session; a tick that begins without a
\* session starts no check and no save and stops the watcher; a callback that
\* resumes from its check without a session writes no cookies, then or later.
C5_TickNeverResurrects ==
    [][ret'.op = "watcher" =>
          /\ \A b \in Accounts : ~HasSession(b) => ~HasSession(b)'
          /\ (ret'.res \in {"check", "stop"} /\ ~HasSession(ret'.a)) =>
                /\ ret'.res = "stop"
                /\ inflight' = inflight /\ cookieFile' = cookieFile
                /\ loginWatchers'[ret'.a] = 0
                /\ ~timers'[ret'.t].live
          /\ (ret'.res \in {"save", "logout", "nothing", "failed"} /\ ~HasSession(ret'.a)) =>
                /\ cookieFile' = cookieFile
                /\ \A k \in inflight' \ inflight : k.sctx = 0
          /\ \A k \in inflight \ inflight' :
                (k.pc = "save" /\ k.sctx = 0) => cookieFile' = cookieFile]_vars

C5_Witness ==
    /\ ret.op = "watcher" /\ ret.res = "stop"
    /\ ~HasSession(ret.a)
    /\ loginWatchers[ret.a] = 0

\* C6: loadOrCreateFingerprint generates and persists a fingerprint only when none is
\* persisted; a call that finds one generates nothing, rewrites nothing and returns
\* the persisted value, so a call made after an earlier one has finished never
\* generates a second fingerprint.
C6_LoadOrCreateIdempotent ==
    [][\A c \in Slots : LET a == calls[c].a IN
          /\ (calls[c].pc = "fpExists" /\ calls'[c] # calls[c]) =>
                IF fpFile[a] # NoFile
                THEN calls'[c].pc = "fpRead" /\ ghost' = ghost /\ fpFile' = fpFile
                ELSE /\ calls'[c].pc = "fpWrite" /\ ghost'.gen[a] = ghost.gen[a] + 1
                     /\ (\A d \in Slots \ {c} : ~(InLoadOrCreate(d) /\ calls[d].a = a))
                           => ghost.gen[a] = 0
          /\ (calls[c].pc = "fpRead" /\ calls'[c].pc = "ctxOpen") =>
                calls'[c].fp = fpFile[a] /\ fpFile' = fpFile /\ ghost' = ghost
          /\ (calls[c].pc = "fpWrite" /\ calls'[c].pc = "ctxOpen") =>
                fpFile'[a] = calls'[c].fp]_vars

C6_Witness ==
    \E c \in Slots :
        /\ calls[c].op = "launch" /\ calls[c].pc = "ctxOpen"
        /\ calls[c].fp = fpFile[calls[c].a]
        /\ ghost.gen[calls[c].a] = 1
        /\ \E x \in CtxIds : ctxs[x].profile = calls[c].a /\ ~ctxs[x].open

\* C7: launchBrowser that finds a session entry for the account returns 'already
\* active' and changes nothing, whatever platformId and proxy it was given.
C7_LaunchAlreadyActive ==
    [][\A c \in Slots :
          (calls[c].op = "launch" /\ calls[c].pc = "ensure" /\ calls'[c] # calls[c]
             /\ HasSession(calls[c].a)) =>
              /\ ret' = Ret(c, "already")
              /\ calls'[c] = Idle
              /\ UNCHANGED << activeBrowsers, loginWatchers, timers, inflight, ctxs,
                              fpFile, cookieFile, ghost >>]_vars

C7_Witness ==
    /\ ret.op = "launch" /\ ret.res = "already"
    /\ HasSession(ret.a)
    /\ activeBrowsers[ret.a].platformId # ret.platformId

\* C8: over the life of a session, whichever watcher is running, the save of a
\* detected login fires only while the session's isLoggedIn is still false.
C8_SaveOnlyOnSessionTransition ==
    [][ret'.op = "watcher" /\ ret'.res = "save" => ~IsLoggedIn(ret'.a)]_vars

\* C9: a watcher that has observed logged-in and then sees a successful check report
\* logged-out clears isLoggedIn, triggers no save and writes no cookies, stays
\* registered and live, and treats a later logged-in result as a new login.
C9_LogoutNoSave ==
    [][\A t \in TimerIds : LET a == timers[t].acct IN
          /\ (ghost.w[t].seen /\ ~ghost'.w[t].seen) <=> (ret' = Did(t, "logout"))
          /\ (ret' = Did(t, "logout")) =>
                /\ \A k \in inflight \ inflight' :
                      activeBrowsers[a].ctx = k.ctx => ~activeBrowsers'[a].isLoggedIn
                /\ cookieFile' = cookieFile
                /\ inflight' \subseteq inflight
                /\ timers'[t].live = timers[t].live
                /\ loginWatchers' = loginWatchers
                /\ ~timers'[t].wasLoggedIn
          /\ (~timers[t].wasLoggedIn /\ ghost'.w[t].seen /\ ghost'.w[t] # ghost.w[t]) =>
                ret' = Did(t, "save")]_vars

C9_Witness ==
    \E t \in TimerIds :
        /\ ret = Did(t, "logout")
        /\ timers[t].live /\ loginWatchers[timers[t].acct] = t
        /\ HasSession(timers[t].acct)
        /\ ~activeBrowsers[timers[t].acct].isLoggedIn
        /\ activeBrowsers[timers[t].acct].loginDetectedAt = Now

WatcherLive(t) == t \in TimerIds /\ timers[t].live

\* C10: an interval starts at most maxChecks login checks, one per tick; while the
\* session is there it stops itself on no earlier tick than the one after them, and
\* that tick starts no check, unregisters the watcher and clears the interval; and
\* with ticks that keep coming every watcher that was started is stopped in the end.
C10_WatcherBounded ==
    /\ [](\A t \in TimerIds : timers[t].checkCount <= maxChecks)
    /\ [][\A t \in TimerIds : LET a == timers[t].acct IN
             /\ (ret' = Did(t, "check")) =>
                   /\ timers'[t].checkCount = timers[t].checkCount + 1
                   /\ timers'[t].checkCount <= maxChecks
             /\ (ret' = Did(t, "stop") /\ HasSession(a)) =>
                   timers[t].checkCount = maxChecks
             /\ (timers[t].checkCount = maxChecks /\ ret'.op = "watcher" /\ ret'.t = t
                   /\ ret'.res \in {"check", "stop"}) =>
                   /\ ret'.res = "stop"
                   /\ inflight' = inflight
                   /\ ~timers'[t].live
                   /\ loginWatchers'[a] = 0]_vars
    /\ \A t \in 1..MaxWatcherCalls : WatcherLive(t) ~> ~WatcherLive(t)

C10_Witness ==
    /\ ret.op = "watcher" /\ ret.res = "stop"
    /\ HasSession(ret.a)

\* C11: a navigateTo whose page load fails returns a failure value in that same
\* step and leaves the session entry, the watcher registration, the intervals, the
\* contexts and the cookie files as they are; nothing else makes navigateTo fail.
C11_NavigateFailure ==
    [][\A c \in Slots :
          /\ (calls[c].op = "navigate" /\ calls[c].pc = "goto" /\ calls'[c] # calls[c]
                /\ calls'[c].pc # "settle") =>
                /\ ret' = Ret(c, "error")
                /\ calls'[c] = Idle
                /\ UNCHANGED << activeBrowsers, loginWatchers, timers, inflight, ctxs,
                                cookieFile >>
          /\ (calls[c].op = "navigate" /\ calls'[c] = Idle /\ ret'.res = "error") =>
                calls[c].pc = "goto"]_vars

C11_Witness ==
    /\ ret.op = "navigate" /\ ret.res = "error"
    /\ HasSession(ret.a) /\ CtxOpen(activeBrowsers[ret.a].ctx)
    /\ loginWatchers[ret.a] # 0
    /\ timers[loginWatchers[ret.a]].live

\* C12: a navigateTo whose challenge-wait loop ran out of attempts with the
\* challenge still present returns a failed navigation and leaves the session entry
\* in place.
C12_ChallengeTimeoutFails ==
    [][\A c \in Slots :
          (calls[c].op = "navigate" /\ calls[c].challenge = "timeout"
             /\ calls[c].attempts = maxAttempts /\ calls'[c] = Idle) =>
              /\ ret'.op = "navigate" /\ ret'.res = "error"
              /\ activeBrowsers' = activeBrowsers]_vars

SessionOps == QueryOps \cup {"navigate", "save"}

\* C13: navigateTo, getPageInfo, saveSession, takeScreenshot, executeScript,
\* checkLoginStatus, getLoginState, publishContent and sendAIPrompt, called for an
\* account without a session entry, return the not-found value in that same step
\* and change no session, watcher, interval, context or cookie file; they return
\* it in no other case.
C13_MissingSessionNotFound ==
    [][/\ \A c \in Slots :
             (calls[c] = Idle /\ calls'[c].op \in SessionOps) => HasSession(calls'[c].a)
       /\ (ret'.op \in SessionOps /\ nCalls' # nCalls) =>
             /\ (ret'.res = "notfound") <=> ~HasSession(ret'.a)
             /\ ret'.res = "notfound" =>
                   UNCHANGED << activeBrowsers, loginWatchers, timers, inflight, ctxs,
                                cookieFile, calls >>]_vars

C13_Witness ==
    /\ ret.op \in QueryOps /\ ret.res = "notfound"
    /\ ~HasSession(ret.a)
    /\ cookieFile[ret.a] # "none"
    /\ \E b \in Accounts : loginWatchers[b] # 0

\* C14: the options handed to the browser carry the fingerprint's timezone as
\* timezoneId and the location mapped from that timezone as geolocation.
C14_TimezoneGeolocationAgree ==
    ret.op = "finalOptions" =>
        /\ ret.res.timezoneId = ret.fp.timezone.id
        /\ ret.res.geolocation = getGeolocationFromTimezone(ret.res.timezoneId)

\* C15: in every fingerprint generateFingerprint returns, a user agent containing
\* 'Macintosh' goes with platform MacIntel, 8, 10 or 12 cores and no touch points,
\* and any other user agent with Win32, 4, 8, 12 or 16 cores and 0, 5 or 10 touch
\* points.
C15_OsFieldsAgree ==
    ret.op = "generateFingerprint" =>
        LET nav == ret.fp.navigator
        IN  IF \E i \in DOMAIN nav.userAgent : nav.userAgent[i] = "Macintosh"
            THEN /\ nav.platform = "MacIntel"
                 /\ nav.hardwareConcurrency \in {8, 10, 12}
                 /\ nav.maxTouchPoints = 0
            ELSE /\ nav.platform = "Win32"
                 /\ nav.hardwareConcurrency \in {4, 8, 12, 16}
                 /\ nav.maxTouchPoints \in {0, 5, 10}

C15_Witness ==
    /\ ret.op = "generateFingerprint"
    /\ ret.fp.navigator.userAgent \notin USER_AGENTS
    /\ ret.fp.navigator.userAgent[2] = "Macintosh"
    /\ ret.fp.navigator.hardwareConcurrency = 10

\* C16: every fingerprint that a launch has handed to launchPersistentContext, has
\* stored in a session or has returned to its caller is the fingerprint persisted
\* for the account.
C16_OneFingerprintPerAccount ==
    /\ \A c \in Slots :
          (calls[c].op = "launch" /\ calls[c].pc \in {"ctxOpen", "init"}) =>
              calls[c].fp = fpFile[calls[c].a]
    /\ \A a \in Accounts : HasSession(a) => activeBrowsers[a].fingerprint = fpFile[a]
    /\ (ret.op = "launch" /\ ret.res = "launched") => ret.fp = fpFile[ret.a]

LiveTimers(tm, a) == { t \in DOMAIN tm : tm[t].acct = a /\ tm[t].live }

\* C17: a navigateTo that returns success with watchLogin on leaves exactly one live
\* watcher for the account, a new one in its initial state that is the registered
\* one; with watchLogin off it leaves the watcher map and the intervals alone.
C17_NavigateStartsOneWatcher ==
    [][\A c \in Slots :
          (calls[c].op = "navigate" /\ calls'[c] = Idle /\ ret'.res = "ok") =>
              IF calls[c].flag
              THEN /\ loginWatchers'[calls[c].a] = Len(timers) + 1
                   /\ LiveTimers(timers', calls[c].a) = {Len(timers) + 1}
                   /\ timers'[Len(timers) + 1] = NewTimer(calls[c].a)
                   /\ \A b \in Accounts \ {calls[c].a} :
                         loginWatchers'[b] = loginWatchers[b]
              ELSE UNCHANGED << loginWatchers, timers >>]_vars

C17_Witness ==
    /\ ret.op = "navigate" /\ ret.res = "ok"
    /\ loginWatchers[ret.a] = Len(timers)
    /\ \E t \in TimerIds :
          /\ t # Len(timers) /\ timers[t].acct = ret.a /\ timers[t].wasLoggedIn
          /\ \E k \in inflight : k.t = t

\* Where an account is in its lifecycle.
Lifecycle(a) ==
    IF HasSession(a)
    THEN IF \E c \in Slots : calls[c].op = "close" /\ calls[c].a = a
         THEN "Closing" ELSE "Active"
    ELSE IF \E c \in Slots : PastCheck(c) /\ calls[c].a = a
         THEN "Launching" ELSE "Absent"

\* C18: an account moves only along Absent -> Launching -> Active -> Closing ->
\* Absent and Launching -> Absent, and a closeBrowser that began on a session ends
\* with the session entry gone.
C18_Lifecycle ==
    [][/\ \A a \in Accounts :
             Lifecycle(a)' # Lifecycle(a) =>
                 << Lifecycle(a), Lifecycle(a)' >> \in
                     { << "Absent", "Launching" >>, << "Launching", "Active" >>,
                       << "Launching", "Absent" >>, << "Active", "Closing" >>,
                       << "Closing", "Absent" >> }
       /\ \A c \in Slots :
             (calls[c].op = "close" /\ calls'[c] = Idle) =>
                 activeBrowsers'[calls[c].a] = NoSession]_vars

\* C19: a login watcher is registered for an account only while the account has a
\* session entry.
C19_WatcherTiedToSession ==
    \A a \in Accounts : loginWatchers[a] # 0 => HasSession(a)

\* C20: the live intervals of an account are exactly the one the watcher map
\* records for it, if any, and only a live, registered interval fires a tick.
C20_OneLiveTimer ==
    /\ [](\A a \in Accounts :
            LiveTimers(timers, a) = (IF loginWatchers[a] = 0 THEN {} ELSE {loginWatchers[a]}))
    /\ [][(ret'.op = "watcher" /\ ret'.res \in {"check", "stop"}) =>
             /\ timers[ret'.t].live
             /\ loginWatchers[ret'.a] = ret'.t]_vars

C20_Witness ==
    \E t \in TimerIds :
        /\ ~timers[t].live
        /\ loginWatchers[timers[t].acct] \notin {0, t}
        /\ \E k \in inflight : k.t = t
        /\ ret.op = "startLoginWatcher"

\* C21: a tick whose login check fails leaves the watcher registered and its
\* interval live, changes no session (so neither isLoggedIn nor loginDetectedAt),
\* starts no save and writes no cookies.
C21_FailedCheckKeepsWatcher ==
    [][\A t \in TimerIds :
          (ret' = Did(t, "failed")) =>
              /\ UNCHANGED << activeBrowsers, loginWatchers, timers, cookieFile >>
              /\ inflight' \subseteq inflight]_vars

C21_Witness ==
    \E t \in TimerIds :
        /\ ret = Did(t, "failed")
        /\ timers[t].live /\ loginWatchers[timers[t].acct] = t
        /\ timers[t].wasLoggedIn
        /\ IsLoggedIn(timers[t].acct)
        /\ timers[t].checkCount < maxChecks

ListedEdges ==
    { << "Stopped", "Starting" >>, << "Failed", "Starting" >>, << "Starting", "Running" >>,
      << "Running", "Stopping" >>, << "Stopping", "Stopped" >> }

\* The edges into Failed: a start attempt that fails, and restarts that ran out.
FailureEdges == { << "Starting", "Failed" >>, << "Running", "Failed" >> }

\* C23 as stated: whatever start(), stop() and the health events do, the state
\* is one of the five and changes only along the listed edges.
C23_ListedEdgesOnly ==
    /\ [](sidecarState.kind \in SidecarStates)
    /\ [][sidecarState'.kind # sidecarState.kind =>
             << sidecarState.kind, sidecarState'.kind >> \in ListedEdges]_vars

\* C23: whatever start(), stop() and the health events do, the state is one of the
\* five and changes only along the listed edges or along Starting -> Failed and
\* Running -> Failed.
C23_StateEdges ==
    /\ [](sidecarState.kind \in SidecarStates)
    /\ [][sidecarState'.kind # sidecarState.kind =>
             << sidecarState.kind, sidecarState'.kind >> \in ListedEdges \cup FailureEdges]_vars

C23_Witness ==
    /\ sidecarState.kind = "Starting"
    /\ ret = HostRet("start", "starting", "Failed")
    /\ manager.restart_count = max_restarts

Schedule == << 1, 2, 4, 8, 16 >>

\* C25: when every probe fails, the supervisor restarts the process max_restarts
\* times, after the delays 1, 2, 4, 8 and 16 in that order, and then is Failed for
\* good: in Failed no loop polls, no restart is pending and none is made.
C25_RestartsThenFailed ==
    /\ <>[](/\ sidecarState.kind = "Failed"
            /\ manager.backoffs = Schedule
            /\ manager.restart_count = max_restarts)
    /\ [](/\ manager.backoffs = SubSeq(Schedule, 1, manager.restart_count)
          /\ sidecarState.kind = "Failed" =>
                /\ manager.restart_count = max_restarts
                /\ health.loops = {} /\ health.probes = {} /\ manager.restartTimer = 0)

C25_Witness ==
    /\ sidecarState.kind = "Failed"
    /\ manager.backoffs = Schedule
    /\ manager.spawned = max_restarts + 1
    /\ ret.op = "probe" /\ ret.res = "degraded"

\* C26: restart_count changes only by an automatic restart, which adds exactly one,
\* and by the recovery that completes success_threshold consecutive healthy probes
\* after a degradation, which sets it to zero; start() and stop() keep it.
C26_RestartCount ==
    [][/\ ret'.op = "restart" => manager'.restart_count = manager.restart_count + 1
       /\ manager'.restart_count # manager.restart_count =>
             \/ ret'.op = "restart"
             \/ /\ manager'.restart_count = 0
                /\ ret'.op = "probe" /\ ret'.cause = "ok"
                /\ health.degraded
                /\ health'.successes = success_threshold]_vars

\* A second Running episode that begins with the count of the first.
C26_Witness ==
    /\ sidecarState.kind = "Running"
    /\ ret = HostRet("start", "Running", "ok")
    /\ manager.signals # << >>
    /\ manager.restart_count = 2

\* C27: a graceful stop() begins by sending the terminate request and nothing else;
\* when its wait ends the state is Stopped, with no force-kill if the process exited
\* within shutdown_timeout and with one if it did not; and every stop reaches Stopped.
C27_GracefulStop ==
    /\ [][/\ (ret'.op = "stop" /\ ret'.cause = "graceful") =>
                /\ sidecarState'.kind = "Stopping"
                /\ manager'.signals = << "terminate" >>
          /\ (ret'.op = "stop" /\ ret'.res = "stopped"
                /\ manager.signals = << "terminate" >>) =>
                /\ sidecarState'.kind = "Stopped"
                /\ ret'.cause = "exited" => manager'.signals = << "terminate" >>
                /\ ret'.cause = "timeout" => manager'.signals = << "terminate", "kill" >>]_vars
    /\ (sidecarState.kind = "Stopping") ~> (sidecarState.kind = "Stopped")

C27_Witness ==
    /\ sidecarState.kind = "Stopped"
    /\ ret = HostRet("stop", "stopped", "timeout")
    /\ manager.signals = << "terminate", "kill" >>

\* C28: at most one poll loop is active, it is the loop of the current process of a
\* Running supervisor, and only it has a probe in flight; an automatic restart leaves
\* the loop of the new process alone, with no probe in flight; and every probe result
\* that is acted on comes from the current process.
C28_OneHealthLoop ==
    /\ [](/\ Cardinality(health.loops) <= 1
          /\ health.loops \subseteq {sidecarState.pid}
          /\ health.probes \subseteq health.loops
          /\ health.loops # {} => sidecarState.kind = "Running")
    /\ [][/\ ret'.op = "restart" =>
                /\ sidecarState'.pid # sidecarState.pid
                /\ health'.loops = {sidecarState'.pid}
                /\ health'.probes = {}
          /\ ret'.op = "probe" =>
                ret'.t = sidecarState.pid /\ sidecarState.kind = "Running"]_vars

\* The second automatic restart: only the loop of the third process is left.
C28_Witness ==
    /\ ret.op = "restart"
    /\ sidecarState.pid = 3
    /\ health.loops = {3} /\ health.probes = {}
    /\ health.degraded

Current(stream) == { f \in logs.files : f.stream = stream /\ f.archived = 0 }

C30_OnlyWatcherWritesLogin ==
    [][\A a \in Accounts :
          (/\ HasSession(a) /\ activeBrowsers'[a] # NoSession
           /\ \/ activeBrowsers'[a].isLoggedIn # activeBrowsers[a].isLoggedIn
              \/ activeBrowsers'[a].loginDetectedAt # activeBrowsers[a].loginDetectedAt)
          => ret'.op = "watcher"]_vars

\* The pointer movements made up to attempt index n: the one before the loop and
\* one for each unsuccessful poll whose index is a multiple of 3.
MovesUpTo(n) == 1 + Cardinality({ i \in 0..(n - 1) : i % 3 = 0 })

\* C31: the challenge-wait loop polls at most maxAttempts times; a poll that finds
\* no challenge ends it at once with true, the maxAttempts-th poll that still finds
\* one ends it with false; the pointer is moved once before the loop and after just
\* the unsuccessful polls whose attempt index is a multiple of 3; and the loop ends.
C31_ChallengeLoopBounded ==
    /\ [](\A c \in Slots : calls[c].challenge # "none" =>
             /\ calls[c].attempts <= maxAttempts
             /\ calls[c].moves = MovesUpTo(calls[c].attempts)
             /\ (calls[c].challenge = "timeout") <=> (calls[c].attempts = maxAttempts)
             /\ (calls[c].challenge = "found") <=> (calls[c].pc = "challenge"))
    /\ [][\A c \in Slots :
             (calls[c].pc = "challenge" /\ calls'[c] # calls[c]) =>
                 /\ ret'.op = "poll" /\ ret'.t = calls[c].attempts /\ ret'.t < maxAttempts
                 /\ ret'.cause = "clear" =>
                       /\ calls'[c].challenge = "passed"
                       /\ calls'[c].attempts = calls[c].attempts
                       /\ calls'[c].moves = calls[c].moves
                 /\ ret'.cause = "challenge" =>
                       /\ calls'[c].attempts = calls[c].attempts + 1
                       /\ calls'[c].moves =
                             calls[c].moves + (IF ret'.t % 3 = 0 THEN 1 ELSE 0)
                       /\ (calls'[c].challenge = "timeout") <=> (ret'.t = maxAttempts - 1)]_vars
    /\ \A c \in Slots : (calls[c].pc = "challenge") ~> (calls[c].pc # "challenge")

C31_Witness ==
    \E c \in Slots :
        /\ calls[c].op = "navigate" /\ calls[c].pc = "settle"
        /\ calls[c].challenge = "timeout"
        /\ calls[c].attempts = maxAttempts /\ calls[c].moves = 5
        /\ ret = [NoRet EXCEPT !.op = "poll", !.a = calls[c].a, !.t = maxAttempts - 1,
                               !.cause = "challenge"]

C33_ProfileOwned ==
    /\ [](\A a, b \in Accounts :
             (a # b /\ HasSession(a) /\ HasSession(b)) =>
                 /\ activeBrowsers[a].userDataDir # activeBrowsers[b].userDataDir
                 /\ activeBrowsers[a].ctx # activeBrowsers[b].ctx)
    /\ [][(ret'.op \in {"deleteProfile", "restore"} /\ HasSession(ret'.a)) =>
             /\ fpFile'[ret'.a] = fpFile[ret'.a]
             /\ cookieFile'[ret'.a] = cookieFile[ret'.a]]_vars

\* The place of a stage in StartStage.
StageIndex(stage) == CHOOSE i \in 1..Len(StartStages) : StartStages[i] = stage

\* C34: a start() made while Starting or Running returns the current state and
\* changes nothing: state, stage, process, restart_count, poll loops and probes stay;
\* and while a start attempt lasts its stage never goes back in the order of
\* StartStage, ending at Ready when the attempt reaches Running.
C34_StartIdempotent ==
    [][/\ (ret'.op = "start" /\ ret'.res \in {"noop", "starting"}
             /\ sidecarState.kind \in {"Starting", "Running"}) =>
             /\ ret' = HostRet("start", "noop", sidecarState.kind)
             /\ UNCHANGED << sidecarState, manager, health >>
       /\ (sidecarState.kind = "Starting" /\ sidecarState'.kind \in {"Starting", "Running"}) =>
             /\ StageIndex(sidecarState'.stage) >= StageIndex(sidecarState.stage)
             /\ sidecarState'.kind = "Running" => sidecarState'.stage = StartStages[5]]_vars

C34_Witness ==
    /\ ret = HostRet("start", "noop", "Starting")
    /\ sidecarState.stage = StartStages[4]
    /\ sidecarState.pid = manager.spawned /\ manager.spawned = 2
    /\ manager.restart_count = 0

\* C35: stop() cancels the poll loop, the probe in flight and the pending restart
\* timer; from then until the next start() none of them exists, no probe ends, no
\* restart fires and no process is spawned; and the stop ends in Stopped.
C35_StopCancels ==
    /\ [](sidecarState.kind \in {"Stopping", "Stopped"} =>
             /\ health.loops = {} /\ health.probes = {}
             /\ manager.restartTimer = 0)
    /\ [][sidecarState.kind \in {"Stopping", "Stopped"} =>
             /\ ret'.op \notin {"probe", "restart"}
             /\ manager'.spawned = manager.spawned
             /\ sidecarState'.kind \notin {"Stopping", "Stopped"} =>
                   ret' = HostRet("start", "starting", "Stopped")]_vars
    /\ (ret.op = "stop" /\ ret.res = "stopping") ~> (sidecarState.kind = "Stopped")

\* Stopped after a stop() that found a restart waiting in backoff: the failures
\* that set the timer are still counted and no restart was ever made.
C35_Witness ==
    /\ sidecarState.kind = "Stopped"
    /\ ret = HostRet("stop", "stopped", "exited")
    /\ health.degraded /\ health.failures >= failure_threshold
    /\ manager.restart_count = 0 /\ manager.spawned = 1

\* C36: the browser context of every session in the map has the stealth init
\* script, and so has the context every navigateTo in flight loads its URL in,
\* however launches and navigations of an account interleave.
C36_StealthBeforeVisible ==
    /\ \A a \in Accounts :
          HasSession(a) =>
              activeBrowsers[a].ctx \in CtxIds /\ ctxs[activeBrowsers[a].ctx].stealth
    /\ \A c \in Slots :
          calls[c].op = "navigate" =>
              calls[c].ctx \in CtxIds /\ ctxs[calls[c].ctx].stealth

\* A navigateTo about to load its URL while a second launch of the same account
\* has opened a context that has no init script yet.
C36_Witness ==
    \E c, d \in Slots :
        /\ calls[c].op = "navigate" /\ calls[c].pc = "goto"
        /\ calls[d].op = "launch" /\ calls[d].pc = "init" /\ calls[d].a = calls[c].a
        /\ ~ctxs[calls[d].ctx].stealth
        /\ activeBrowsers[calls[c].a].ctx = calls[c].ctx

\* C37: closeAllBrowsers attempts a close with save on every account in the session
\* map, one at a time, and returns one result per attempt; when no launch runs
\* meanwhile and every teardown succeeded, the session map and the watcher map are
\* both empty when it returns.
C37_CloseAllEmpties ==
    ret.op = "closeAll" =>
        /\ \A a \in Accounts :
              HasSession(a) => \E i \in 1..Len(ret.results) : ret.results[i].accountId = a
        /\ (\A i \in 1..Len(ret.results) : ret.results[i].success) =>
              /\ \A a \in Accounts : ~HasSession(a)
              /\ \A a \in Accounts : loginWatchers[a] = 0

\* The parts of C37 that do not depend on a navigateTo in flight.
C37_SessionsClosed ==
    ret.op = "closeAll" =>
        /\ \A a \in Accounts :
              HasSession(a) => \E i \in 1..Len(ret.results) : ret.results[i].accountId = a
        /\ (\A i \in 1..Len(ret.results) : ret.results[i].success) =>
              \A a \in Accounts : ~HasSession(a)

\* C38: a launchBrowser that fails after its browser context was opened returns a
\* failure, leaves the session map as it was, and leaves its context neither open
\* nor unreferenced by a session entry.
C38_FailedLaunchLeavesNothing ==
    [][\A c \in Slots :
          (/\ calls[c].op = "launch" /\ calls[c].pc = "init"
           /\ calls'[c] = Idle /\ ret'.res # "launched")
          => /\ ret'.op = "launch" /\ ret'.res \in {"error", "chromeMissing"}
             /\ activeBrowsers' = activeBrowsers
             /\ \/ ~ctxs'[calls[c].ctx].open
                \/ \E a \in Accounts :
                      HasSession(a)' /\ activeBrowsers'[a].ctx = calls[c].ctx]_vars

\* The part of C38 that holds: the failure is returned and the session map is as
\* it was.
C38_FailedLaunchKeepsMap ==
    [][\A c \in Slots :
          (/\ calls[c].op = "launch" /\ calls[c].pc = "init"
           /\ calls'[c] = Idle /\ ret'.res # "launched")
          => /\ ret'.op = "launch" /\ ret'.res \in {"error", "chromeMissing"}
             /\ activeBrowsers' = activeBrowsers]_vars

\* C39: the process exits on a signal only after closeAllBrowsers has attempted a
\* close with save on every session present, also on one whose launch completed
\* during the shutdown: while a handler runs, an entry leaves the session map only
\* with its own context closed, and an entry left at the exit was attempted; and
\* the process always eventually exits.
C39_ExitAfterCloseAll ==
    [][/\ \A a \in Accounts :
             (/\ \E c \in Slots : calls[c].op = "shutdown"
              /\ HasSession(a) /\ ~HasSession(a)')
             => ~ctxs'[activeBrowsers[a].ctx].open
       /\ Exited' =>
             \A a \in Accounts :
                HasSession(a)' =>
                   \E c \in Slots : \E i \in 1..Len(calls'[c].results) :
                      calls'[c].results[i].accountId = a]_vars

\* The part of C39 about the session map: every entry left was attempted.
C39_EntriesAttempted ==
    Exited =>
        \A a \in Accounts :
           HasSession(a) =>
              \E c \in Slots : \E i \in 1..Len(calls[c].results) :
                 calls[c].results[i].accountId = a

\* The last part of C39: a handler that has started is followed by the exit.
C39_EventuallyExits ==
    (\E c \in Slots : calls[c].op = "shutdown") ~> Exited

\* C40: a session whose isLoggedIn is true has a loginDetectedAt, and it became
\* true when the saveSession started at the detection had settled; a session starts
\* with isLoggedIn false and loginDetectedAt null and keeps them until a watcher
\* detects a login, and getLoginState reports them; a detected logout clears
\* isLoggedIn and keeps loginDetectedAt.
C40_LoginFlags ==
    [][/\ \A a \in Accounts :
             LET s == activeBrowsers[a]
                 s2 == activeBrowsers'[a]
                 same == s # NoSession /\ s2 # NoSession /\ s.ctx = s2.ctx
             IN  /\ (s2 # NoSession /\ s2.isLoggedIn) => s2.loginDetectedAt # Never
                 /\ (s2 # NoSession /\ ~same) =>
                       ~s2.isLoggedIn /\ s2.loginDetectedAt = Never
                 /\ (same /\ ~s.isLoggedIn /\ s2.isLoggedIn) =>
                       \E k \in inflight \ inflight' :
                          /\ k.pc = "save" /\ timers[k.t].acct = a
                          /\ k.sctx = s.ctx /\ ret'.res = "saved"
                 /\ (same /\ s.isLoggedIn /\ ~s2.isLoggedIn) =>
                       ret'.res = "logout" /\ s2.loginDetectedAt = s.loginDetectedAt
                 /\ (same /\ s2.loginDetectedAt # s.loginDetectedAt) => s2.isLoggedIn
       /\ (ret'.op = "getLoginState" /\ ret'.res = "ok") =>
             /\ ret'.login.isLoggedIn = activeBrowsers'[ret'.a].isLoggedIn
             /\ ret'.login.loginDetectedAt = activeBrowsers'[ret'.a].loginDetectedAt]_vars

\* getLoginState after a login and then a logout were detected on the session.
C40_Witness ==
    /\ ret.op = "getLoginState" /\ ret.res = "ok"
    /\ ~ret.login.isLoggedIn /\ ret.login.loginDetectedAt # Never
    /\ \E t \in TimerIds : timers[t].live /\ ~timers[t].wasLoggedIn

====
